---- MODULE Spec2Model ----
(***************************************************************************)
(* docpull scraper engine: link discovery (scrape_links) and content       *)
(* extraction (scrape_content) of src/scraper/core.py, with the fetchers   *)
(* of src/scraper/fetchers.py and the strategies of src/scraper/extractors.*)
(*                                                                         *)
(* URLs are indices into the ascending table of the URL strings of one     *)
(* site: index 1 is baseUrl, index 1 + p is baseUrl + path p, so that the  *)
(* order of the indices is the order of the strings.  A page is           *)
(* represented by the set of same-site links its markup holds.  An        *)
(* optional value (None or a value) is a sequence of length 0 or 1.        *)
(*                                                                         *)
(* The pure functions of the strategies (_clean_url and the link filter of *)
(* the default strategy) work on URL strings proper, which are sequences   *)
(* of tokens, and are checked under the specification FnSpec.  The legacy  *)
(* scrape(job) of core.py runs under LegacySpec and fetch_all_html of      *)
(* fetchers.py under BulkFairSpec; both use the variables of the engine.   *)
(***************************************************************************)
EXTENDS Integers, Sequences, FiniteSets, TLC

\* ---------------------------------------------------------------- bounds
\* URLs of the site whose link sets are enumerated
NumUrls == 3
\* most hyperlinks the enumerated link graphs hold in total
MaxLinks == 3
\* maxDepth ranges over 0 .. MaxDepthBound
MaxDepthBound == 1
\* most fetches that fail within one call
MaxFail == 1
\* longest URL string, in characters, given to _clean_url
MaxUrlLen == 3
\* most href attributes in the markup given to extract_links
MaxHrefs == 3
\* longest URL list given to fetch_all_html
MaxBulk == 3
\* the concurrency argument of fetch_all_html ranges over 1 .. MaxConcurrency
MaxConcurrency == 2
\* longest job list given to scrape_batch
MaxJobs == 2
\* most deployments started, and most streams opened, on one server
MaxDeployments == 2
MaxStreams == 2

\* ------------------------------------------------------ program constants
\* core.py:76  "len(batch) < 10"
BatchSize == 10
\* config.baseUrl is the first URL string of the site
BaseUrl == 1

\* ------------------------------------------------------------- universes
CoreUrls == 1..NumUrls
\* BatchSize further pages, so that a frontier can exceed one batch
Fillers == (NumUrls + 1)..(NumUrls + BatchSize)
Urls == 1..(NumUrls + BatchSize)
Paths == 0..(NumUrls + BatchSize - 1)

\* an href that passes the pattern filter and on which urlparse raises ValueError
\* (an unbalanced bracket in the host part); it is no URL of the site
Malformed == 0

None == <<>>
Some(x) == <<x>>

\* ----------------------------------------------------------- pure helpers
Min(S) == CHOOSE x \in S : \A y \in S : x <= y
Max(S) == CHOOSE x \in S : \A y \in S : y <= x

RECURSIVE Sorted_descending(_)
Sorted_descending(S) ==
    IF S = {} THEN <<>> ELSE <<Max(S)>> \o Sorted_descending(S \ {Max(S)})

\* sorted(iterable of distinct strings): ascending sequence
RECURSIVE Sorted(_)
Sorted(S) == IF S = {} THEN <<>> ELSE <<Min(S)>> \o Sorted(S \ {Min(S)})

Range(s) == {s[i] : i \in 1..Len(s)}

\* config.baseUrl + path
UrlConcat(base, path) == base + path

\* ------------------------------------------------------------ URL strings
\* A string is the sequence of its tokens: the characters "/", "?" and "#" and
\* words that hold none of them.  No token is a prefix of another, so the order
\* of two strings is decided at their first differing token.  A host name may
\* take more than one token: "docs.test" followed by ".evil" is the host
\* docs.test.evil.
TokenOrder ==
    <<"#", ".evil", "/", "?", "a", "blog", "docs.test", "guide", "http://", "https://",
      "intro", "mailto:", "other.test", "top", "v", "x">>

Rank(t) == CHOOSE i \in 1..Len(TokenOrder) : TokenOrder[i] = t

\* a < b for strings
RECURSIVE LexLess(_, _)
LexLess(a, b) ==
    IF a = <<>> THEN b # <<>>
    ELSE IF b = <<>> THEN FALSE
    ELSE IF Head(a) = Head(b) THEN LexLess(Tail(a), Tail(b))
    ELSE Rank(Head(a)) < Rank(Head(b))

\* sorted(set of strings)
RECURSIVE SortedStrings(_)
SortedStrings(S) ==
    IF S = {} THEN <<>>
    ELSE LET m == CHOOSE x \in S : \A y \in S \ {x} : LexLess(x, y)
         IN <<m>> \o SortedStrings(S \ {m})

\* s.split(c)[0]
BeforeFirst(s, c) ==
    IF \E i \in 1..Len(s) : s[i] = c
    THEN SubSeq(s, 1, Min({i \in 1..Len(s) : s[i] = c}) - 1)
    ELSE s

\* s.rstrip(c)
RECURSIVE RStrip(_, _)
RStrip(s, c) ==
    IF s # <<>> /\ s[Len(s)] = c THEN RStrip(SubSeq(s, 1, Len(s) - 1), c) ELSE s

Clean_oneSlash(url) ==
    LET s == BeforeFirst(BeforeFirst(url, "?"), "#")
    IN IF s # <<>> /\ s[Len(s)] = "/" THEN SubSeq(s, 1, Len(s) - 1) ELSE s

\* Extractor._clean_url: url.split("?")[0].split("#")[0].rstrip("/")
Clean(url) == RStrip(BeforeFirst(BeforeFirst(url, "?"), "#"), "/")

\* s.startswith(p)
StartsWith(s, p) == Len(s) >= Len(p) /\ SubSeq(s, 1, Len(p)) = p

\* p in s
Contains(s, p) ==
    \E i \in 1..(Len(s) - Len(p) + 1) : SubSeq(s, i, i + Len(p) - 1) = p

Schemes == {"http://", "https://", "mailto:"}

\* urlparse(url).netloc: what stands between "//" and the next "/", "?" or "#"
Netloc(url) ==
    IF url # <<>> /\ url[1] \in {"http://", "https://"}
    THEN BeforeFirst(BeforeFirst(BeforeFirst(Tail(url), "/"), "?"), "#")
    ELSE <<>>

\* f"{parsed.scheme}://{parsed.netloc}" of the base URL
Origin(base_url) == SubSeq(base_url, 1, 1 + Len(Netloc(base_url)))

\* urljoin(base_url, link) for a link that does not start with "/" or "http"
UrlJoin(base_url, link) ==
    IF link = <<>> THEN base_url
    ELSE IF link[1] \in Schemes THEN link
    ELSE LET path == SubSeq(base_url, Len(Origin(base_url)) + 1, Len(base_url))
             slashes == {i \in 1..Len(path) : path[i] = "/"}
             dir == IF slashes = {} THEN <<"/">>
                    ELSE SubSeq(path, 1, Max(slashes))
         IN Origin(base_url) \o dir \o link

\* the link of one href: cleaned, then resolved against the base URL
Resolve(href, base_url) ==
    LET link == Clean(href)
    IN IF StartsWith(link, <<"/">>) THEN Origin(base_url) \o link
       ELSE IF ~(link # <<>> /\ link[1] \in {"http://", "https://"})
            THEN UrlJoin(base_url, link)
            ELSE link

Keep_anyDomain(link, base_url, pattern) == pattern = <<>> \/ Contains(link, pattern)

\* the pattern filter and the same-domain filter
Keep(link, base_url, pattern) ==
    /\ ~(pattern # <<>> /\ ~Contains(link, pattern))
    /\ Netloc(link) = Netloc(base_url)

\* DefaultExtractor._extract_links_from_html; html is the set of the values of
\* the href attributes in the markup
ExtractLinksFromHtml(html, base_url, pattern) ==
    SortedStrings({l \in {Resolve(h, base_url) : h \in html} :
                      Keep(l, base_url, pattern)})

\* the filters of the live-page path: the pattern, then "link starts with the
\* base URL or has its netloc"
KeepOnPage(link, base_url, pattern) ==
    /\ ~(pattern # <<>> /\ ~Contains(link, pattern))
    /\ \/ StartsWith(link, base_url)
       \/ Netloc(link) = Netloc(base_url)

\* DefaultExtractor._extract_links_from_page; hrefs is the set of the e.href
\* of the page's anchors, absolute URLs all
ExtractLinksFromPage(hrefs, base_url, pattern) ==
    SortedStrings({l \in {Clean(h) : h \in hrefs} : KeepOnPage(l, base_url, pattern)})

\* -------------------------------------------------- the site's URL table
\* The strings behind the URL indices of the crawl, in ascending order. A
\* start URL is config.baseUrl + path for whatever path the configuration
\* holds: the path of URL NumUrls + 1 ends in "/", so that URL is the string of
\* URL NumUrls followed by a slash. The links of a page have gone through
\* _clean_url, so only start URLs can be such a string.
PageNames ==
    <<"a", "b", "c", "d", "e", "f", "g", "h", "i", "j", "k", "l", "m", "n", "o", "p">>

SiteUrl == <<"https://", "docs.test">>

Stem(u) == IF u = BaseUrl THEN SiteUrl ELSE SiteUrl \o <<"/", PageNames[u]>>

\* config.baseUrl + path
UrlString(u) == IF u = NumUrls + 1 THEN Stem(NumUrls) \o <<"/">> ELSE Stem(u)

\* ------------------------------------------------------ strategy registry
\* extractors/__init__.py EXTRACTORS after the imports at the end of the file
EXTRACTORS ==
    {"default", "terraform", "modal", "convex", "cursor", "claude_code", "unsloth"}

\* the strategies that inherit DefaultExtractor.extract_links
InheritsDefaultLinks == EXTRACTORS \ {"terraform"}

\* ------------------------------------------------------------- envelopes
\* ScrapeResult(site, operation, success=True, data) ; error defaults to None
Success(site, operation, data) ==
    [site |-> site, operation |-> operation, success |-> TRUE,
     data |-> data, error |-> None]

Failure_noError(site, operation, e) ==
    [site |-> site, operation |-> operation, success |-> FALSE,
     data |-> <<>>, error |-> None]

\* ScrapeResult(site, operation, success=False, data=[], error=...)
Failure(site, operation, e) ==
    [site |-> site, operation |-> operation, success |-> FALSE,
     data |-> <<>>, error |-> Some(e)]

\* ------------------------------------------------------ exception messages
\* str(e) of an exception raised by a library call or a strategy
Msg(text) == [text |-> text, arg |-> "", available |-> {}]

UnknownSite_noList(site_id, available) ==
    [text |-> "Unknown site", arg |-> site_id, available |-> {}]

\* f"Unknown site: {site_id}. Available: {available}"
UnknownSite(site_id, available) ==
    [text |-> "Unknown site", arg |-> site_id, available |-> available]

\* f"Unknown extractor: {name}. Available: {list(EXTRACTORS.keys())}"
UnknownExtractor(name, available) ==
    [text |-> "Unknown extractor", arg |-> name, available |-> available]

\* --------------------------------------------------- site configurations
\* LinksConfig (the substring pattern is applied inside the page's link set)
LinksConfig(startUrls, waitFor, maxDepth) ==
    [startUrls |-> startUrls, waitFor |-> waitFor, maxDepth |-> maxDepth]

\* ContentConfig
ContentConfig(mode, waitFor, method) ==
    [mode |-> mode, waitFor |-> waitFor, selector |-> "sel", method |-> method]

\* SiteConfig
SiteConfig(mode, extractor, links, content) ==
    [mode |-> mode, extractor |-> extractor, links |-> links, content |-> content]

\* keys of data["sites"] in the configuration store
SITES == {"docs"}

Modes == {"fetch", "browser"}
Methods == {"click_copy", "text_content", "inner_html"}
WaitFors == {None, Some("sel")}

\* link graphs over the enumerated URLs with at most MaxLinks hyperlinks
EdgeSets == {E \in SUBSET (CoreUrls \X CoreUrls) : Cardinality(E) <= MaxLinks}
WebOf(E) == [u \in Urls |-> {v \in Urls : <<u, v>> \in E}]
Webs == {WebOf(E) : E \in EdgeSets}

\* page u links to its successor, the last page back to the first
RingWeb == [u \in Urls |-> IF u \in CoreUrls THEN {(u % NumUrls) + 1} ELSE {}]
SampleWebs == {RingWeb, WebOf({})}

\* the ring; the first filler URL is page NumUrls again, reached with a
\* trailing slash, and holds the links of that page; the last filler page links
\* to the last page
WideWeb ==
    [u \in Urls |->
        IF u \in CoreUrls THEN {(u % NumUrls) + 1}
        ELSE IF u = NumUrls + 1 THEN {(NumUrls % NumUrls) + 1}
        ELSE IF u = NumUrls + BatchSize THEN {NumUrls}
        ELSE {}]

\* a graph of at most one hyperlink, and one page that holds a malformed href
PoisonWebs ==
    {[u \in Urls |-> WebOf(E)[u] \cup (IF u = p THEN {Malformed} ELSE {})] :
        E \in {F \in EdgeSets : Cardinality(F) <= 1}, p \in CoreUrls}

\* startUrls lists: none, one seed, two seeds, a repeated seed
SeedLists == {<<>>, <<0>>, <<0, 1>>, <<1, 0, 1>>}
FillerPaths == [i \in 1..BatchSize |-> NumUrls + i - BaseUrl]
\* more distinct seeds than one batch holds
WideSeedLists == {FillerPaths \o <<0>>, <<0>> \o FillerPaths}
Depths == 0..MaxDepthBound
\* ------------------------------------------------------------------ state
VARIABLES
    cfg,        \* the SiteConfig stored for the site "docs"
    web,        \* web[u]: the same-site links held by the page at URL u
    pc,         \* position of the running call
    call,       \* arguments of the running call: op, site, path
    visited,    \* scrape_links: visited
    to_visit,   \* scrape_links: to_visit, a list of <<url, depth>>
    all_links,  \* scrape_links: all_links
    batch,      \* scrape_links: batch, a list of <<url, depth>>
    results,    \* the fetch tasks awaited: "pending" ("waiting" or "fetching" in
                \* fetch_all_html), "ok" or "exc" per task
    ret,        \* the ScrapeResult returned by the last call
    fetchLog,   \* every fetch_html issued by the running call: <<url, depth>>
    failed,     \* URLs whose fetch_html raised during the running call
    sessions,   \* every browser_page session opened by the running call
    prev        \* data of an earlier successful scrape_links without fetch failure,
                \* and whether a call has failed since

vars == <<cfg, web, pc, call, visited, to_visit, all_links, batch, results,
          ret, fetchLog, failed, sessions, prev>>

crawlVars == <<visited, to_visit, all_links, batch, results>>

\* ------------------------------------------------------------- strategies
ExtractLinks_lenient(extractor, kind, page) ==
    IF Malformed \in page /\ extractor # "terraform"
    THEN [links |-> <<>>, raised |-> Some(Msg("Invalid IPv6 URL"))]
    ELSE [links |-> Sorted(page \ {Malformed}), raised |-> None]

\* Extractor.extract_links on raw markup (kind "html") or a live page ("page"):
\* the links returned, or the error raised
ExtractLinks(extractor, kind, page) ==
    IF extractor = "terraform"
    THEN IF kind = "html"
         THEN [links |-> <<>>,
               raised |-> Some(Msg("TerraformExtractor requires browser mode for link extraction"))]
         ELSE [links |-> Sorted(page \ {Malformed}), raised |-> None]
    ELSE IF Malformed \in page
         THEN [links |-> <<>>, raised |-> Some(Msg("Invalid IPv6 URL"))]
         ELSE [links |-> Sorted(page), raised |-> None]

\* the whole markup of the page at u, and what a selector's element yields
Html(u) == <<"html", u>>
Element(method, u) == <<method, u>>

\* what navigator.clipboard.readText() does after the click: it resolves to the
\* copied text or to the empty string, or it rejects
ClipReads == {"readText: text", "readText: empty", "readText: error"}

\* `Error reading clipboard: ${err.message}`
ClipboardError(u) == <<"Error reading clipboard: ", u>>

ClickCopy_raise(u, clip) ==
    IF clip = "readText: error"
    THEN [content |-> <<>>, raised |-> Some(Msg("Error reading clipboard"))]
    ELSE [content |-> IF clip = "readText: text" THEN <<Element("click_copy", u)>> ELSE <<>>,
          raised |-> None]

\* DefaultExtractor._click_copy: the script catches the rejection and returns
\* the error text; return [content] if content else []
ClickCopy(u, clip) ==
    [content |-> IF clip = "readText: text" THEN <<Element("click_copy", u)>>
                 ELSE IF clip = "readText: error" THEN <<ClipboardError(u)>>
                 ELSE <<>>,
     raised |-> None]

\* the extraction on a live page ends in _click_copy
ReadsClipboard(extractor, method) ==
    /\ extractor # "terraform"
    /\ extractor = "default" => method = "click_copy"

\* Extractor.extract_content on raw markup or a live page
ExtractContent(extractor, kind, method, u, clip) ==
    IF kind = "html"
    THEN IF extractor = "terraform"
         THEN [content |-> <<>>,
               raised |-> Some(Msg("TerraformExtractor requires browser mode for content extraction"))]
         ELSE [content |-> <<Html(u)>>, raised |-> None]
    ELSE IF extractor = "terraform"
         THEN [content |-> <<Element("inner_html", u)>>, raised |-> None]
         ELSE IF ReadsClipboard(extractor, method)
              THEN ClickCopy(u, clip)
              ELSE [content |-> <<Element(method, u)>>, raised |-> None]

\* the @register(name) decorators of the strategy modules: name and class
Registrations ==
    {<<"default", "DefaultExtractor">>, <<"terraform", "TerraformExtractor">>,
     <<"modal", "ModalExtractor">>, <<"convex", "ConvexExtractor">>,
     <<"cursor", "CursorExtractor">>, <<"claude_code", "ClaudeCodeExtractor">>,
     <<"unsloth", "UnslothExtractor">>}

\* the orders in which the strategy modules can be imported
RECURSIVE Perms(_)
Perms(S) ==
    IF S = {} THEN {<<>>}
    ELSE UNION {{<<x>> \o p : p \in Perms(S \ {x})} : x \in S}

ImportOrders == Perms(Registrations)

\* EXTRACTORS[name] = cls on a dict, which keeps its keys in insertion order
Register(reg, name, cls) ==
    IF \E i \in DOMAIN reg : reg[i][1] = name
    THEN [i \in DOMAIN reg |-> IF reg[i][1] = name THEN <<name, cls>> ELSE reg[i]]
    ELSE Append(reg, <<name, cls>>)

\* EXTRACTORS once the modules have been imported in the given order
RECURSIVE RegistryAfter(_)
RegistryAfter(order) ==
    IF order = <<>> THEN <<>>
    ELSE LET last == order[Len(order)]
         IN Register(RegistryAfter(SubSeq(order, 1, Len(order) - 1)), last[1], last[2])

\* EXTRACTORS.keys()
Keys(reg) == {reg[i][1] : i \in DOMAIN reg}

GetExtractor_latest(reg, name) ==
    IF name \notin Keys(reg)
    THEN [instance |-> None, raised |-> Some(UnknownExtractor(name, Keys(reg)))]
    ELSE [instance |-> Some(reg[Len(reg)][2]), raised |-> None]

\* get_extractor(name): an instance of EXTRACTORS[name], or ValueError
GetExtractor(reg, name) ==
    IF name \notin Keys(reg)
    THEN [instance |-> None, raised |-> Some(UnknownExtractor(name, Keys(reg)))]
    ELSE [instance |-> Some(reg[CHOOSE i \in DOMAIN reg : reg[i][1] = name][2]),
          raised |-> None]

\* ---------------------------------------------------------- configuration
\* load_site_config, get_extractor and the sub-configuration check: the error
\* that ends the call before any page is requested, if there is one
ConfigError_copyPaste(site, op) ==
    IF site \notin SITES THEN Some(UnknownSite(site, SITES))
    ELSE IF cfg.extractor \notin EXTRACTORS
         THEN Some(UnknownExtractor(cfg.extractor, EXTRACTORS))
    ELSE IF op = "links" /\ cfg.links = None
         THEN Some(Msg("Site has no content configuration"))
    ELSE IF op = "content" /\ cfg.content = None
         THEN Some(Msg("Site has no content configuration"))
    ELSE None

ConfigError(site, op) ==
    IF site \notin SITES THEN Some(UnknownSite(site, SITES))
    ELSE IF cfg.extractor \notin EXTRACTORS
         THEN Some(UnknownExtractor(cfg.extractor, EXTRACTORS))
    ELSE IF op = "links" /\ cfg.links = None
         THEN Some(Msg("Site has no links configuration"))
    ELSE IF op = "content" /\ cfg.content = None
         THEN Some(Msg("Site has no content configuration"))
    ELSE None

EffectiveMode_siteOnly == cfg.mode

\* mode = config.content.mode or config.mode
EffectiveMode ==
    IF cfg.content[1].mode # None THEN cfg.content[1].mode[1] ELSE cfg.mode

\* start_urls of fetch-mode discovery
StartUrls ==
    [i \in 1..Len(cfg.links[1].startUrls) |->
        UrlConcat(BaseUrl, cfg.links[1].startUrls[i])]

RenderStartUrl_last ==
    UrlConcat(BaseUrl,
              IF cfg.links[1].startUrls # <<>>
              THEN cfg.links[1].startUrls[Len(cfg.links[1].startUrls)] ELSE 0)

\* start_url of render-mode discovery
RenderStartUrl ==
    UrlConcat(BaseUrl,
              IF cfg.links[1].startUrls # <<>> THEN cfg.links[1].startUrls[1] ELSE 0)

ContentPermissions_always == {"clipboard-read", "clipboard-write"}

\* permissions requested for the session of scrape_content
ContentPermissions ==
    IF cfg.content[1].method = "click_copy"
    THEN {"clipboard-read", "clipboard-write"} ELSE {}

\* --------------------------------------------------------- the crawl loop
\* the inner loop stopping at an entry it rejects, leaving it at the head
RECURSIVE TakeBatch_stall(_, _, _, _)
TakeBatch_stall(q, vis, b, maxd) ==
    IF q = <<>> \/ Len(b) >= BatchSize
    THEN [to_visit |-> q, visited |-> vis, batch |-> b]
    ELSE LET url == Head(q)[1]
             depth == Head(q)[2]
         IN IF url \notin vis /\ depth <= maxd
            THEN TakeBatch_stall(Tail(q), vis \cup {url}, Append(b, <<url, depth>>), maxd)
            ELSE [to_visit |-> q, visited |-> vis, batch |-> b]

\* the inner loop accepting an entry whose URL is already visited
RECURSIVE TakeBatch_revisit(_, _, _, _)
TakeBatch_revisit(q, vis, b, maxd) ==
    IF q = <<>> \/ Len(b) >= BatchSize
    THEN [to_visit |-> q, visited |-> vis, batch |-> b]
    ELSE LET url == Head(q)[1]
             depth == Head(q)[2]
         IN IF depth <= maxd
            THEN TakeBatch_revisit(Tail(q), vis \cup {url}, Append(b, <<url, depth>>), maxd)
            ELSE TakeBatch_revisit(Tail(q), vis, b, maxd)

\* the inner loop without "len(batch) < 10"
RECURSIVE TakeBatch_nolimit(_, _, _, _)
TakeBatch_nolimit(q, vis, b, maxd) ==
    IF q = <<>>
    THEN [to_visit |-> q, visited |-> vis, batch |-> b]
    ELSE LET url == Head(q)[1]
             depth == Head(q)[2]
         IN IF url \notin vis /\ depth <= maxd
            THEN TakeBatch_nolimit(Tail(q), vis \cup {url}, Append(b, <<url, depth>>), maxd)
            ELSE TakeBatch_nolimit(Tail(q), vis, b, maxd)

\* the inner while loop: pop entries until the batch is full or the frontier empty
RECURSIVE TakeBatch(_, _, _, _)
TakeBatch(q, vis, b, maxd) ==
    IF q = <<>> \/ Len(b) >= BatchSize
    THEN [to_visit |-> q, visited |-> vis, batch |-> b]
    ELSE LET url == Head(q)[1]
             depth == Head(q)[2]
         IN IF url \notin vis /\ depth <= maxd
            THEN TakeBatch(Tail(q), vis \cup {url}, Append(b, <<url, depth>>), maxd)
            ELSE TakeBatch(Tail(q), vis, b, maxd)

ChildDepth_same(depth) == depth

\* depth + 1
ChildDepth(depth) == depth + 1

ShouldEnqueue_inclusive(depth, maxd, link, vis) == depth <= maxd /\ link \notin vis

ShouldEnqueue_early(depth, maxd, link, vis) == depth + 1 < maxd /\ link \notin vis

\* depth < max_depth and link not in visited
ShouldEnqueue(depth, maxd, link, vis) == depth < maxd /\ link \notin vis

Enqueue_front(q, entry) == <<entry>> \o q

\* to_visit.append((link, depth + 1))
Enqueue(q, entry) == Append(q, entry)

\* for link in links: all_links.add(link); enqueue the link when allowed
RECURSIVE AddLinks(_, _, _, _, _)
AddLinks(links, depth, maxd, vis, acc) ==
    IF links = <<>> THEN acc
    ELSE LET link == Head(links)
         IN AddLinks(Tail(links), depth, maxd, vis,
                [all_links |-> acc.all_links \cup {link},
                 to_visit |-> IF ShouldEnqueue(depth, maxd, link, vis)
                              THEN Enqueue(acc.to_visit, <<link, ChildDepth(depth)>>)
                              ELSE acc.to_visit,
                 raised |-> acc.raised])

OnFetchError_abort(acc) == [acc EXCEPT !.raised = Some(Msg("fetch failed"))]

\* if isinstance(result, Exception): print; continue
OnFetchError(acc) == acc

OnStrategyError_skip(acc, e) == acc

\* extract_links raises inside the try block: the except clause of scrape_links
OnStrategyError(acc, e) == [acc EXCEPT !.raised = e]

\* for (url, depth), result in zip(batch, results): ...
RECURSIVE FoldResults(_, _, _, _, _, _, _)
FoldResults(i, b, res, extractor, maxd, vis, acc) ==
    IF i > Len(b) \/ acc.raised # None THEN acc
    ELSE IF res[i] # "ok"
         THEN FoldResults(i + 1, b, res, extractor, maxd, vis, OnFetchError(acc))
         ELSE LET x == ExtractLinks(extractor, "html", web[b[i][1]])
              IN IF x.raised # None
                 THEN OnStrategyError(acc, x.raised)
                 ELSE FoldResults(i + 1, b, res, extractor, maxd, vis,
                                  AddLinks(x.links, b[i][2], maxd, vis, acc))

GatherReady_first == \E i \in DOMAIN results : results[i] # "pending"

\* asyncio.gather(*tasks, return_exceptions=True) returns when every task has ended
GatherReady == \A i \in DOMAIN results : results[i] # "pending"
\* ---------------------------------------------------------------- actions
\* no ScrapeResult: a call is running, or none was made yet
NoResult ==
    [site |-> "", operation |-> "none", success |-> FALSE, data |-> <<>>, error |-> None]

\* a use of browser_page(url, wait_for, permissions), nothing launched yet: the
\* browser, its context and its page are each "none", "open" or "closed";
\* raised is the exception that left the "async with" statement, if any; log
\* lists, in order, the page operations and strategy operations invoked
Session(url, wait_for, permissions) ==
    [url |-> url, wait_for |-> wait_for, permissions |-> permissions,
     browser |-> "none", context |-> "none", page |-> "none", raised |-> None,
     log |-> <<>>]

Invoked(s, steps) == [s EXCEPT !.log = @ \o steps]

BodySteps_extractFirst(extractor, op) ==
    <<IF op = "links" THEN "extract_links" ELSE "extract_content", "setup_browser">>

\* await extractor.setup_browser(page), then extractor.extract_links or
\* extract_content; the terraform strategy calls its setup_browser once more
\* at the start of either
BodySteps(extractor, op) ==
    <<"setup_browser", IF op = "links" THEN "extract_links" ELSE "extract_content">>
        \o (IF extractor = "terraform" THEN <<"setup_browser">> ELSE <<>>)

\* browser_page, finally: await page.close()
PageFinally(s) == [s EXCEPT !.page = "closed"]

\* browser_context, finally: await context.close(); await browser.close()
ContextFinally(s) == [s EXCEPT !.context = "closed", !.browser = "closed"]

\* browser.new_context raises before the try of browser_context is entered
OnContextError(s) == s

\* context.new_page raises before the try of browser_page is entered, inside
\* the "async with browser_context"
OnNewPageError(s) == ContextFinally(s)

\* page.goto, the selector wait or the caller's body raises, or the body ends
OnExit(s) == ContextFinally(PageFinally(s))

Raise(s, e) == [s EXCEPT !.raised = Some(e)]

Outcome_swallow(raised, data) ==
    Success(call.site, call.op, IF raised # None THEN <<>> ELSE data)

\* the return at the end of the try block, or the one of "except Exception as e"
Outcome(raised, data) ==
    IF raised # None
    THEN Failure(call.site, call.op, raised[1])
    ELSE Success(call.site, call.op, data)

\* the data of the call that just returned, when it is a successful scrape_links
\* of the configured site without fetch failure; otherwise what was remembered,
\* with a note when the call that just returned has failed
Remember ==
    IF pc = "done" /\ ret.operation = "links" /\ ret.success /\ failed = {}
    THEN Some([data |-> ret.data, failedSince |-> FALSE])
    ELSE IF pc = "done" /\ ~ret.success /\ prev # None
    THEN Some([prev[1] EXCEPT !.failedSince = TRUE])
    ELSE prev

FreshVisited_shared == visited

\* visited: set[str] = set(), a local of the call
FreshVisited == {}

ClearCrawl ==
    /\ visited' = {}
    /\ to_visit' = <<>>
    /\ all_links' = {}
    /\ batch' = <<>>
    /\ results' = <<>>

\* scrape_links(site_id) up to its first await, or to its return
ScrapeLinks(site) ==
    /\ pc \in {"idle", "done"}
    /\ call' = [op |-> "links", site |-> site, path |-> 0]
    /\ prev' = Remember
    /\ failed' = {}
    /\ fetchLog' = <<>>
    /\ LET err == ConfigError(site, "links")
       IN IF err # None
          THEN /\ ret' = Failure(site, "links", err[1])
               /\ pc' = "done"
               /\ sessions' = <<>>
               /\ ClearCrawl
          ELSE IF cfg.mode = "fetch"
          THEN /\ visited' = FreshVisited
               /\ to_visit' = [i \in 1..Len(StartUrls) |-> <<StartUrls[i], 0>>]
               /\ all_links' = {}
               /\ batch' = <<>>
               /\ results' = <<>>
               /\ sessions' = <<>>
               /\ ret' = NoResult
               /\ pc' = "loop"
          ELSE /\ sessions' = <<Session(RenderStartUrl, cfg.links[1].waitFor, {})>>
               /\ ClearCrawl
               /\ ret' = NoResult
               /\ pc' = "launch"
    /\ UNCHANGED <<cfg, web>>

\* one turn of "while to_visit": leave the loop and return, or build the next
\* batch and start its fetches
CrawlLoop ==
    /\ pc = "loop"
    /\ IF to_visit = <<>>
       THEN /\ ret' = Success(call.site, "links", Sorted(all_links))
            /\ pc' = "done"
            /\ UNCHANGED <<visited, to_visit, batch, results, fetchLog>>
       ELSE LET r == TakeBatch(to_visit, visited, <<>>, cfg.links[1].maxDepth)
            IN /\ visited' = r.visited
               /\ to_visit' = r.to_visit
               /\ batch' = r.batch
               /\ results' = [i \in 1..Len(r.batch) |-> "pending"]
               /\ fetchLog' = fetchLog \o r.batch
               /\ pc' = IF r.batch = <<>> THEN "loop" ELSE "gather"
               /\ ret' = ret
    /\ UNCHANGED <<cfg, web, call, all_links, failed, sessions, prev>>

\* one fetch_html task of the batch ends: with the markup, or with an exception
FetchDone(i, ok) ==
    /\ pc = "gather"
    /\ i \in DOMAIN results
    /\ results[i] = "pending"
    /\ IF ok
       THEN /\ results' = [results EXCEPT ![i] = "ok"]
            /\ failed' = failed
       ELSE /\ Cardinality(failed) < MaxFail
            /\ results' = [results EXCEPT ![i] = "exc"]
            /\ failed' = failed \cup {batch[i][1]}
    /\ UNCHANGED <<cfg, web, pc, call, visited, to_visit, all_links, batch, ret,
                   fetchLog, sessions, prev>>

\* gather returns; the results of the batch are folded into all_links and to_visit
FoldBatch ==
    /\ pc = "gather"
    /\ GatherReady
    /\ LET acc == FoldResults(1, batch, results, cfg.extractor, cfg.links[1].maxDepth,
                              visited,
                              [all_links |-> all_links, to_visit |-> to_visit,
                               raised |-> None])
       IN IF acc.raised # None
          THEN /\ ret' = Failure(call.site, "links", acc.raised[1])
               /\ pc' = "done"
               /\ UNCHANGED <<all_links, to_visit>>
          ELSE /\ all_links' = acc.all_links
               /\ to_visit' = acc.to_visit
               /\ pc' = "loop"
               /\ ret' = ret
    /\ UNCHANGED <<cfg, web, call, visited, batch, results, fetchLog, failed,
                   sessions, prev>>

\* scrape_content(site_id, path) up to its first await, or to its return
ScrapeContent(site, path) ==
    /\ pc \in {"idle", "done"}
    /\ call' = [op |-> "content", site |-> site, path |-> path]
    /\ prev' = Remember
    /\ failed' = {}
    /\ ClearCrawl
    /\ LET err == ConfigError(site, "content")
           url == UrlConcat(BaseUrl, path)
       IN IF err # None
          THEN /\ ret' = Failure(site, "content", err[1])
               /\ pc' = "done"
               /\ fetchLog' = <<>>
               /\ sessions' = <<>>
          ELSE IF EffectiveMode = "fetch"
          THEN /\ fetchLog' = <<<<url, 0>>>>
               /\ sessions' = <<>>
               /\ ret' = NoResult
               /\ pc' = "fetch"
          ELSE /\ sessions' = <<Session(url, cfg.content[1].waitFor, ContentPermissions)>>
               /\ fetchLog' = <<>>
               /\ ret' = NoResult
               /\ pc' = "launch"
    /\ UNCHANGED <<cfg, web>>

\* the fetch_html of scrape_content ends; on success the strategy extracts
ContentFetchDone(ok) ==
    /\ pc = "fetch"
    /\ LET url == UrlConcat(BaseUrl, call.path)
           x == ExtractContent(cfg.extractor, "html", cfg.content[1].method, url,
                               "readText: empty")
       IN IF ~ok
          THEN /\ failed' = {url}
               /\ ret' = Outcome(Some(Msg("fetch failed")), <<>>)
          ELSE /\ failed' = failed
               /\ ret' = Outcome(x.raised, x.content)
    /\ pc' = "done"
    /\ UNCHANGED <<cfg, web, call, crawlVars, fetchLog, sessions, prev>>

\* one step of entering browser_page ends: it succeeded and the session goes on
\* to the next step, or it raised e, the handlers in force ran and the caller's
\* except clause returns
SessionStep(ok, entered, next, e, handlers) ==
    IF ok
    THEN /\ sessions' = <<entered>>
         /\ pc' = next
         /\ ret' = ret
    ELSE /\ sessions' = <<Raise(handlers, e)>>
         /\ pc' = "done"
         /\ ret' = Outcome(Some(e), <<>>)

\* async_playwright() is entered and p.chromium.launch() ends
LaunchDone(ok) ==
    /\ pc = "launch"
    /\ SessionStep(ok, [sessions[1] EXCEPT !.browser = "open"], "context",
                   Msg("launch failed"), sessions[1])
    /\ UNCHANGED <<cfg, web, call, crawlVars, fetchLog, failed, prev>>

\* browser.new_context(permissions=...) ends
ContextDone(ok) ==
    /\ pc = "context"
    /\ SessionStep(ok, [sessions[1] EXCEPT !.context = "open"], "newpage",
                   Msg("new_context failed"), OnContextError(sessions[1]))
    /\ UNCHANGED <<cfg, web, call, crawlVars, fetchLog, failed, prev>>

\* context.new_page() ends
NewPageDone(ok) ==
    /\ pc = "newpage"
    /\ SessionStep(ok, [sessions[1] EXCEPT !.page = "open"], "goto",
                   Msg("new_page failed"), OnNewPageError(sessions[1]))
    /\ UNCHANGED <<cfg, web, call, crawlVars, fetchLog, failed, prev>>

\* page.goto ends: the page loaded, or the navigation raised
GotoDone(ok) ==
    /\ pc = "goto"
    /\ LET s == Invoked(sessions[1], <<"goto">>)
       IN SessionStep(ok, s, IF s.wait_for # None THEN "wait" ELSE "page",
                      Msg("navigation failed"), OnExit(s))
    /\ UNCHANGED <<cfg, web, call, crawlVars, fetchLog, failed, prev>>

\* page.wait_for_selector ends: the element is visible, or the wait raised
WaitDone(ok) ==
    /\ pc = "wait"
    /\ LET s == Invoked(sessions[1], <<"wait_for_selector">>)
       IN SessionStep(ok, s, "page", Msg("selector wait failed"), OnExit(s))
    /\ UNCHANGED <<cfg, web, call, crawlVars, fetchLog, failed, prev>>

\* the body of "async with browser_page": setup_browser, then the strategy's
\* extraction on the live page, which raises on its own account or because a
\* page operation fails (ok = FALSE); a click_copy extraction that gets as far
\* as the clipboard reads it with outcome clip; then the session is left
PageBody(ok, clip) ==
    /\ pc = "page"
    /\ pc' = "done"
    /\ LET url == sessions[1].url
           x == IF call.op = "links"
                THEN ExtractLinks(cfg.extractor, "page", web[url])
                ELSE ExtractContent(cfg.extractor, "page", cfg.content[1].method, url,
                                    clip)
           raised == IF ~ok THEN Some(Msg("extraction failed")) ELSE x.raised
           read == IF /\ ok
                      /\ call.op = "content"
                      /\ ReadsClipboard(cfg.extractor, cfg.content[1].method)
                   THEN <<"click", clip>> ELSE <<>>
           s == OnExit(Invoked(sessions[1], BodySteps(cfg.extractor, call.op) \o read))
       IN /\ sessions' = <<IF raised # None THEN Raise(s, raised[1]) ELSE s>>
          /\ IF call.op = "links"
             THEN /\ all_links' = IF raised = None
                                  THEN all_links \cup Range(x.links) ELSE all_links
                  /\ ret' = Outcome(raised, Sorted(all_links \cup Range(x.links)))
             ELSE /\ all_links' = all_links
                  /\ ret' = Outcome(raised, x.content)
    /\ UNCHANGED <<cfg, web, call, visited, to_visit, batch, results, fetchLog,
                   failed, prev>>
\* --------------------------------------------------------- specification
\* fetch-mode discovery with the default strategy over every enumerated link graph
CrawlConfigs ==
    {SiteConfig("fetch", "default", Some(LinksConfig(s, None, d)), None) :
        s \in SeedLists, d \in Depths}

\* fetch-mode discovery with more seeds than one batch holds
WideConfigs ==
    {SiteConfig("fetch", "default", Some(LinksConfig(s, None, d)), None) :
        s \in WideSeedLists, d \in Depths}

\* fetch-mode discovery with the other strategies, and an unregistered one
OtherCrawlConfigs ==
    {SiteConfig("fetch", e, Some(LinksConfig(s, None, d)), None) :
        e \in {"terraform", "modal", "nosuch"}, s \in SeedLists, d \in Depths}

\* render-mode discovery
RenderConfigs ==
    {SiteConfig("browser", e, Some(LinksConfig(s, w, d)), None) :
        e \in {"default", "terraform"}, s \in SeedLists, w \in WaitFors, d \in Depths}

\* sites with or without a content configuration, and no links configuration
ContentConfigs ==
    {SiteConfig(m, e, None, c) :
        m \in Modes, e \in {"default", "terraform", "modal", "nosuch"},
        c \in {None} \cup
              {Some(ContentConfig(cm, w, meth)) :
                 cm \in {None, Some("fetch"), Some("browser")},
                 w \in WaitFors, meth \in Methods}}

ContentPaths == 0..(NumUrls - 1)
CallSites == SITES \cup {"nosuch"}

Init ==
    /\ \/ cfg \in CrawlConfigs /\ web \in Webs
       \/ cfg \in CrawlConfigs /\ web \in PoisonWebs
       \/ cfg \in WideConfigs /\ web = WideWeb
       \/ cfg \in OtherCrawlConfigs /\ web \in SampleWebs
       \/ cfg \in RenderConfigs /\ web \in SampleWebs
       \/ cfg \in ContentConfigs /\ web = RingWeb
    /\ pc = "idle"
    /\ call = [op |-> "none", site |-> "", path |-> 0]
    /\ visited = {}
    /\ to_visit = <<>>
    /\ all_links = {}
    /\ batch = <<>>
    /\ results = <<>>
    /\ ret = NoResult
    /\ fetchLog = <<>>
    /\ failed = {}
    /\ sessions = <<>>
    /\ prev = None

\* the steps of a running call
Progress ==
    \/ CrawlLoop
    \/ \E i \in 1..BatchSize, ok \in BOOLEAN : FetchDone(i, ok)
    \/ FoldBatch
    \/ \E ok \in BOOLEAN : ContentFetchDone(ok)
    \/ \E ok \in BOOLEAN : LaunchDone(ok)
    \/ \E ok \in BOOLEAN : ContextDone(ok)
    \/ \E ok \in BOOLEAN : NewPageDone(ok)
    \/ \E ok \in BOOLEAN : GotoDone(ok)
    \/ \E ok \in BOOLEAN : WaitDone(ok)
    \/ \E ok \in BOOLEAN, clip \in ClipReads : PageBody(ok, clip)

Next ==
    \/ \E site \in CallSites : ScrapeLinks(site)
    \/ \E site \in CallSites, path \in ContentPaths : ScrapeContent(site, path)
    \/ Progress

Spec == Init /\ [][Next]_vars

\* every awaited fetch, navigation and wait ends, and the event loop resumes the call
FairSpec == Spec /\ WF_vars(Progress)
\* one fetch-mode discovery call of the configured site, from its start to its return
CrawlInit == Init /\ cfg.mode = "fetch" /\ cfg.links # None

CrawlProgress ==
    \/ CrawlLoop
    \/ \E i \in 1..BatchSize, ok \in BOOLEAN : FetchDone(i, ok)
    \/ FoldBatch

CrawlNext ==
    \/ pc = "idle" /\ \E site \in SITES : ScrapeLinks(site)
    \/ CrawlProgress

\* every awaited fetch ends and the event loop resumes the crawl
CrawlFairSpec == CrawlInit /\ [][CrawlNext]_vars /\ WF_vars(CrawlProgress)

\* ------------------------------------- the pure functions of the strategies
Chars == {"a", "/", "?", "#"}
\* the strings of at most MaxUrlLen characters
UrlStrings == UNION {[1..n -> Chars] : n \in 0..MaxUrlLen}

\* href attribute values: root-relative, relative, absolute on the site's host
\* and on another, with query, fragment or trailing slash, protocol-relative,
\* of another scheme, and empty
Hrefs ==
    {<<"/", "guide", "/", "intro">>,
     <<"/", "blog">>,
     <<"https://", "other.test", "/", "guide", "/", "x">>,
     <<"https://", "docs.test", "/", "guide", "/", "intro", "#", "top">>,
     <<"https://", "docs.test", "/", "guide", "/">>,
     <<"http://", "docs.test", "/", "blog", "?", "v">>,
     <<"guide", "/", "intro", "?", "v">>,
     <<"mailto:", "guide">>,
     <<"/", "/", "other.test", "/", "guide">>,
     <<"#", "guide">>,
     <<"https://", "docs.test", "?", "guide">>,
     <<>>}

HrefSets == {H \in SUBSET Hrefs : Cardinality(H) <= MaxHrefs}

\* e.href of an anchor: the browser has resolved it, so it is absolute; among
\* them a URL on a host whose name starts with the name of the site's host
AbsoluteHrefs ==
    {h \in Hrefs : h # <<>> /\ h[1] \in Schemes} \cup
    {<<"https://", "docs.test", ".evil", "/", "guide">>}

AbsoluteHrefSets == {H \in SUBSET AbsoluteHrefs : Cardinality(H) <= MaxHrefs}
BaseUrls ==
    {<<"https://", "docs.test">>,
     <<"https://", "docs.test", "/", "guide", "/", "intro">>}
Patterns == {<<>>, <<"/", "guide">>, <<"blog">>}

CleanCalls ==
    {[op |-> "_clean_url", url |-> u, other |-> v] : u \in UrlStrings, v \in UrlStrings}

LinkCalls ==
    {[op |-> "extract_links", html |-> H, base_url |-> b, pattern |-> p] :
        H \in HrefSets, b \in BaseUrls, p \in Patterns}

PageCalls ==
    {[op |-> "extract_links_page", hrefs |-> H, base_url |-> b, pattern |-> p] :
        H \in AbsoluteHrefSets, b \in BaseUrls, p \in Patterns}

ResolveCalls ==
    {[op |-> "get_extractor", name |-> n, order |-> o] :
        n \in EXTRACTORS \cup {"nosuch"}, o \in ImportOrders}

\* one call of a pure function, its arguments in call
FnInit ==
    /\ call \in CleanCalls \cup LinkCalls \cup PageCalls \cup ResolveCalls
    /\ cfg = SiteConfig("fetch", "default", None, None)
    /\ web = WebOf({})
    /\ pc = "idle"
    /\ visited = {}
    /\ to_visit = <<>>
    /\ all_links = {}
    /\ batch = <<>>
    /\ results = <<>>
    /\ ret = NoResult
    /\ fetchLog = <<>>
    /\ failed = {}
    /\ sessions = <<>>
    /\ prev = None

\* _clean_url applied to two URLs, and to its own result
CleanUrl ==
    /\ pc = "idle"
    /\ call.op = "_clean_url"
    /\ ret' = [once |-> Clean(call.url),
               twice |-> Clean(Clean(call.url)),
               other |-> Clean(call.other)]
    /\ pc' = "done"
    /\ UNCHANGED <<cfg, web, call, crawlVars, fetchLog, failed, sessions, prev>>

\* DefaultExtractor.extract_links on raw markup
ExtractLinksFromMarkup ==
    /\ pc = "idle"
    /\ call.op = "extract_links"
    /\ ret' = [links |-> ExtractLinksFromHtml(call.html, call.base_url, call.pattern)]
    /\ pc' = "done"
    /\ UNCHANGED <<cfg, web, call, crawlVars, fetchLog, failed, sessions, prev>>

\* DefaultExtractor.extract_links on a live page whose anchors have the given
\* hrefs, and on raw markup that holds the same hrefs
ExtractLinksOnPage ==
    /\ pc = "idle"
    /\ call.op = "extract_links_page"
    /\ ret' = [page |-> ExtractLinksFromPage(call.hrefs, call.base_url, call.pattern),
               markup |-> ExtractLinksFromHtml(call.hrefs, call.base_url, call.pattern)]
    /\ pc' = "done"
    /\ UNCHANGED <<cfg, web, call, crawlVars, fetchLog, failed, sessions, prev>>

\* get_extractor(name) on the registry the imports have filled; registry is
\* EXTRACTORS after the call
ResolveExtractor ==
    /\ pc = "idle"
    /\ call.op = "get_extractor"
    /\ LET reg == RegistryAfter(call.order)
           x == GetExtractor(reg, call.name)
       IN ret' = [instance |-> x.instance, raised |-> x.raised, registry |-> reg]
    /\ pc' = "done"
    /\ UNCHANGED <<cfg, web, call, crawlVars, fetchLog, failed, sessions, prev>>

FnNext == CleanUrl \/ ExtractLinksFromMarkup \/ ExtractLinksOnPage \/ ResolveExtractor

FnSpec == FnInit /\ [][FnNext]_vars

\* ------------------------------------------------- the legacy scrape(job)
\* ScrapeJob: the extraction method and the two optional debug paths
LegacyMethods ==
    {"text_content", "click_copy", "terraform_registry", "terraform_links", "custom"}
DebugPaths == {None, Some("debug path")}

\* a job named name; extract_fn tells whether the caller passes an extraction
\* function for it
Job(name, method, extract_fn, html_path, screenshot_path) ==
    [op |-> "scrape", name |-> name, method |-> method, extract_fn |-> extract_fn,
     debug_html_path |-> html_path, debug_screenshot_path |-> screenshot_path]

LegacyJobs ==
    {Job("job", m, f, h, s) :
        m \in LegacyMethods, f \in BOOLEAN, h \in DebugPaths, s \in DebugPaths}

\* extract.py EXTRACTORS, imported as LEGACY_EXTRACTORS
LegacyRegistry == {"click_copy", "text_content", "inner_html", "terraform_registry"}

\* "Resolve extraction function": the exception raised when none can be found
UnresolvedMethod(job) ==
    IF job.extract_fn THEN None
    ELSE IF job.method = "custom"
         THEN Some(Msg("method='custom' but no extract_fn provided"))
    ELSE IF job.method \notin LegacyRegistry
         THEN Some(Msg("KeyError"))
    ELSE None

\* LegacyScrapeResult(job_name, url, success, entries, error)
LegacyScrapeResult(name, success, entries, error) ==
    [job_name |-> name, url |-> BaseUrl, success |-> success, entries |-> entries,
     error |-> error]

\* an exception that leaves scrape(job): nothing is returned
Escaped(e) == [raised |-> e]

\* how the statements before the debug capture end: the browser cannot be
\* started, an operation inside the try block raises, the extraction yields
\* no entry, or it yields entries
FailedOutcomes ==
    {"goto raised", "wait_for_selector raised", "extract_fn raised", "no entries"}
TryOutcomes == FailedOutcomes \cup {"launch raised", "entries"}

\* "if job.method not in (custom, terraform_registry, terraform_links)"
LegacyWaits(method) == method \notin {"custom", "terraform_registry", "terraform_links"}

OnCaptureError_escalate(s, e) == Raise(s, e)

\* except Exception as html_err / ss_err: print(...)
OnCaptureError(s, e) == s

\* one capture of _save_debug_output inside its own try
Captured(s, op, ok) ==
    IF ok THEN Invoked(s, <<op>>)
    ELSE OnCaptureError(Invoked(s, <<op, "failed">>), Msg("capture failed"))

\* the result of the two "return LegacyScrapeResult(success=False, ...)"
LegacyFailure(name, s) ==
    LegacyScrapeResult(name, FALSE, <<>>,
                       Some(IF s.raised = None THEN Msg("No entries found") ELSE s.raised[1]))

LegacyInit ==
    /\ call \in LegacyJobs
    /\ cfg = SiteConfig("browser", "default", None, None)
    /\ web = WebOf({})
    /\ pc = "idle"
    /\ visited = {}
    /\ to_visit = <<>>
    /\ all_links = {}
    /\ batch = <<>>
    /\ results = <<>>
    /\ ret = NoResult
    /\ fetchLog = <<>>
    /\ failed = {}
    /\ sessions = <<>>
    /\ prev = None

\* scrape(job) from its start to the first debug capture, or to its return
LegacyTry(outcome) ==
    /\ pc = "idle"
    /\ call.op = "scrape"
    /\ outcome = "wait_for_selector raised" => LegacyWaits(call.method)
    /\ LET new == Session(BaseUrl, None,
                          IF call.method = "click_copy"
                          THEN {"clipboard-read", "clipboard-write"} ELSE {})
           open == [new EXCEPT !.browser = "open", !.context = "open", !.page = "open"]
           ops == <<"goto">>
                  \o (IF outcome = "goto raised" THEN <<>>
                      ELSE (IF LegacyWaits(call.method)
                            THEN <<"wait_for_selector">> ELSE <<>>)
                           \o (IF outcome = "wait_for_selector raised"
                               THEN <<>> ELSE <<"extract_fn">>))
           s == Invoked(open, ops \o <<outcome>>)
       IN IF UnresolvedMethod(call) # None
          THEN /\ sessions' = <<>>
               /\ ret' = Escaped(UnresolvedMethod(call)[1])
               /\ pc' = "done"
          ELSE IF outcome = "launch raised"
          THEN /\ sessions' = <<Raise(new, Msg("launch failed"))>>
               /\ ret' = Escaped(Msg("launch failed"))
               /\ pc' = "done"
          ELSE IF outcome = "entries"
          THEN /\ sessions' = <<s>>
               /\ ret' = LegacyScrapeResult(call.name, TRUE,
                                         <<Element(call.method, BaseUrl)>>, None)
               /\ pc' = "done"
          ELSE /\ sessions' = <<IF outcome = "no entries" THEN s
                                ELSE Raise(s, Msg(outcome))>>
               /\ ret' = ret
               /\ pc' = "debug_html"
    /\ UNCHANGED <<cfg, web, call, crawlVars, fetchLog, failed, prev>>

\* _save_debug_output, "if job.debug_html_path": page.content() and the write
SaveDebugHtml(ok) ==
    /\ pc = "debug_html"
    /\ call.debug_html_path = None => ok
    /\ sessions' = <<IF call.debug_html_path = None THEN sessions[1]
                     ELSE Captured(sessions[1], "page.content", ok)>>
    /\ pc' = "debug_screenshot"
    /\ UNCHANGED <<cfg, web, call, crawlVars, ret, fetchLog, failed, prev>>

\* _save_debug_output, "if job.debug_screenshot_path": page.screenshot(); then
\* the return of scrape(job)
SaveDebugScreenshot(ok) ==
    /\ pc = "debug_screenshot"
    /\ call.debug_screenshot_path = None => ok
    /\ LET s == IF call.debug_screenshot_path = None THEN sessions[1]
                ELSE Captured(sessions[1], "page.screenshot", ok)
       IN /\ sessions' = <<s>>
          /\ ret' = LegacyFailure(call.name, s)
    /\ pc' = "done"
    /\ UNCHANGED <<cfg, web, call, crawlVars, fetchLog, failed, prev>>

LegacyNext ==
    \/ \E outcome \in TryOutcomes : LegacyTry(outcome)
    \/ \E ok \in BOOLEAN : SaveDebugHtml(ok)
    \/ \E ok \in BOOLEAN : SaveDebugScreenshot(ok)

LegacySpec == LegacyInit /\ [][LegacyNext]_vars

\* ------------------------------------- scrape_batch(jobs, parse_fns, extract_fns)
\* the jobs of a batch save no debug output; two of them may carry one name
BatchNames == {"a", "b"}
BatchMethods == {"text_content", "terraform_links", "custom"}
BatchJobs == {[name |-> n, method |-> m] : n \in BatchNames, m \in BatchMethods}
BatchJobLists == UNION {[1..n -> BatchJobs] : n \in 0..MaxJobs}
BatchCalls ==
    {[op |-> "scrape_batch", jobs |-> js, extract_fns |-> fs] :
        js \in BatchJobLists, fs \in SUBSET BatchNames}

\* what the browser does to one job of the batch
BatchOutcomes == {"launch raised", "goto raised", "no entries", "entries"}

\* scrape(job, ...) as a whole, for a job without debug paths: the exception
\* that leaves it, or the LegacyScrapeResult it returns
ScrapeEnd(job, outcome) ==
    IF UnresolvedMethod(job) # None THEN Escaped(UnresolvedMethod(job)[1])
    ELSE IF outcome = "launch raised" THEN Escaped(Msg("launch failed"))
    ELSE IF outcome = "entries"
         THEN LegacyScrapeResult(job.name, TRUE, <<Element(job.method, BaseUrl)>>, None)
    ELSE LegacyScrapeResult(job.name, FALSE, <<>>,
             Some(Msg(IF outcome = "no entries" THEN "No entries found" ELSE outcome)))

\* a scrape task of the batch: not finished, or finished with ScrapeEnd
PendingTask == [state |-> "pending", value |-> NoResult]
FinishedTask(end) ==
    [state |-> IF "raised" \in DOMAIN end THEN "raised" ELSE "returned", value |-> end]

BatchInit ==
    /\ call \in BatchCalls
    /\ cfg = SiteConfig("browser", "default", None, None)
    /\ web = WebOf({})
    /\ pc = "idle"
    /\ visited = {}
    /\ to_visit = <<>>
    /\ all_links = {}
    /\ batch = <<>>
    /\ results = <<>>
    /\ ret = NoResult
    /\ fetchLog = <<>>
    /\ failed = {}
    /\ sessions = <<>>
    /\ prev = None

\* scrape_batch up to asyncio.gather: one scrape task per job, given the
\* extraction function registered under the job's name, if any
ScrapeBatch ==
    /\ pc = "idle"
    /\ call.op = "scrape_batch"
    /\ batch' = [i \in DOMAIN call.jobs |->
                    Job(call.jobs[i].name, call.jobs[i].method,
                        call.jobs[i].name \in call.extract_fns, None, None)]
    /\ results' = [i \in DOMAIN call.jobs |-> PendingTask]
    /\ IF call.jobs = <<>>
       THEN /\ ret' = [returned |-> <<>>]
            /\ pc' = "done"
       ELSE /\ ret' = ret
            /\ pc' = "gathering"
    /\ UNCHANGED <<cfg, web, call, visited, to_visit, all_links, fetchLog, failed,
                   sessions, prev>>

\* task i finishes. asyncio.gather(*tasks) without return_exceptions: the first
\* exception of a task is raised to the caller of scrape_batch at once, the
\* other tasks run on; when every task has returned, the list of their results
\* in task order is returned
JobDone(i, outcome) ==
    /\ pc \in {"gathering", "done"}
    /\ call.op = "scrape_batch"
    /\ i \in DOMAIN results
    /\ results[i].state = "pending"
    /\ LET end == ScrapeEnd(batch[i], outcome)
           after == [results EXCEPT ![i] = FinishedTask(end)]
       IN /\ results' = after
          /\ IF pc = "done" THEN ret' = ret /\ pc' = pc
             ELSE IF after[i].state = "raised"
             THEN ret' = end /\ pc' = "done"
             ELSE IF \A j \in DOMAIN after : after[j].state = "returned"
             THEN /\ ret' = [returned |-> [j \in DOMAIN after |-> after[j].value]]
                  /\ pc' = "done"
             ELSE ret' = ret /\ pc' = pc
    /\ UNCHANGED <<cfg, web, call, visited, to_visit, all_links, batch, fetchLog,
                   failed, sessions, prev>>

BatchNext ==
    \/ ScrapeBatch
    \/ \E i \in 1..MaxJobs, outcome \in BatchOutcomes : JobDone(i, outcome)

BatchSpec == BatchInit /\ [][BatchNext]_vars

\* ------------------------------------------------ setup/server.py: deployments
\* lines are sequences of tokens; what setup.py --json prints, line by line
ApiUrl == "https://api.test"
UiUrl == "https://ui.test"
JsonLine == <<"{", "api_url", "ui_url", "}">>
Scripts == {<<JsonLine>>, <<<<"building">>, JsonLine>>, <<<<"building">>>>}
ReturnCodes == {0, 1}

\* state.queue.put(None)
Sentinel == None

\* add_line: log_line = f"[{timestamp}] {line}"
LogLine(line) == <<"[", "timestamp", "] ">> \o line

\* line.split("] ", 1)[1]; None stands for the IndexError
SplitRest(line) ==
    IF "] " \notin Range(line) THEN None
    ELSE LET at == CHOOSE i \in DOMAIN line :
                       line[i] = "] " /\ \A j \in 1..(i - 1) : line[j] # "] "
         IN Some(SubSeq(line, at + 1, Len(line)))

\* json.loads(text): the keys of the object; None stands for JSONDecodeError
JsonLoads(text) ==
    IF Len(text) >= 2 /\ text[1] = "{" /\ text[Len(text)] = "}"
    THEN Some(Range(SubSeq(text, 2, Len(text) - 1)))
    ELSE None

\* "for line in reversed(lines)" over lines[1..n]: the parsed object of the
\* first line from the end that starts with "{", ends with "}" and parses
RECURSIVE FindJson(_, _)
FindJson(lines, n) ==
    IF n = 0 THEN None
    ELSE LET line == lines[n]
             rest == SplitRest(line)
         IN IF /\ line # <<>>
               /\ line[1] = "{"
               /\ line[Len(line)] = "}"
               /\ rest # None
               /\ JsonLoads(rest[1]) # None
            THEN JsonLoads(rest[1])
            ELSE FindJson(lines, n - 1)

\* DeploymentState(deployment_id), with the process run_deployment starts for
\* it: what it will print, how much of that was read, and where it stands
DeploymentState(deployment_id, script) ==
    [deployment_id |-> deployment_id, queue |-> <<>>, status |-> "running",
     api_url |-> None, ui_url |-> None, error |-> None,
     script |-> script, read |-> 0, process |-> "none", returncode |-> 0]

\* add_line without the log file: the queue's part
Put(state, line) == [state EXCEPT !.queue = Append(@, line)]

\* "if process.returncode == 0: ... else: ..." of run_deployment
Completed(state, log, returncode) ==
    IF returncode = 0
    THEN LET found == FindJson(log, Len(log))
             stored == IF found = None THEN state
                       ELSE [state EXCEPT
                               !.api_url = IF "api_url" \in found[1]
                                           THEN Some(ApiUrl) ELSE None,
                               !.ui_url = IF "ui_url" \in found[1]
                                          THEN Some(UiUrl) ELSE None,
                               !.status = IF "status=error" \in found[1]
                                          THEN "error" ELSE "success"]
         IN IF stored.status # "error"
            THEN [stored EXCEPT !.status = "complete"] ELSE stored
    ELSE [state EXCEPT !.status = "error",
                       !.error = Some(Msg("Deployment failed with exit code"))]

\* the events of stream_generator
NotFoundEvent == [event |-> "error", error |-> "Deployment not found"]
LogEvent(line) == [event |-> "log", line |-> line]
CompleteEvent(state) ==
    [event |-> "complete", status |-> state.status, api_url |-> state.api_url,
     ui_url |-> state.ui_url, error |-> state.error]

\* a stream_generator(deployment_id): the DeploymentState it got from the
\* table (0: none), the events it has yielded, and whether it has ended
Stream(deployment_id, state, events, ended) ==
    [deployment_id |-> deployment_id, state |-> state, events |-> events,
     ended |-> ended]

\* In this part `batch` holds the DeploymentState objects in order of creation,
\* `results` the deployments table (entry id: the index of its object),
\* `fetchLog` the log files by deployment id and `sessions` the streams.
DeployInit ==
    /\ call = [op |-> "serve"]
    /\ cfg = SiteConfig("browser", "default", None, None)
    /\ web = WebOf({})
    /\ pc = "serving"
    /\ visited = {}
    /\ to_visit = <<>>
    /\ all_links = {}
    /\ batch = <<>>
    /\ results = <<>>
    /\ ret = NoResult
    /\ fetchLog = <<>>
    /\ failed = {}
    /\ sessions = <<>>
    /\ prev = None

deployVars == <<cfg, web, pc, call, visited, to_visit, all_links, ret, failed, prev>>

\* the id of a deployment started `elapsed` seconds after the previous one:
\* datetime.now().strftime("%Y%m%d-%H%M%S")
DeploymentId(elapsed) == IF batch = <<>> THEN 1 ELSE Len(results) + elapsed

\* POST /deploy
StartDeployment(elapsed, script) ==
    /\ call.op = "serve"
    /\ Len(batch) < MaxDeployments
    /\ LET deployment_id == DeploymentId(elapsed)
       IN /\ batch' = Append(batch, DeploymentState(deployment_id, script))
          /\ results' = [id \in 1..Max({deployment_id, Len(results)}) |->
                            IF id = deployment_id THEN Len(batch) + 1
                            ELSE IF id \in DOMAIN results THEN results[id] ELSE 0]
          /\ fetchLog' = [id \in 1..Max({deployment_id, Len(fetchLog)}) |->
                            IF id \in DOMAIN fetchLog THEN fetchLog[id] ELSE <<>>]
    /\ UNCHANGED <<deployVars, sessions>>

\* the "finally" of run_deployment
Finally(state) == [Put(state, Sentinel) EXCEPT !.process = "exited"]

\* run_deployment, create_subprocess_exec: the process starts, or the call
\* raises and the except and finally blocks run
Spawn(o, ok) ==
    /\ call.op = "serve"
    /\ o \in DOMAIN batch
    /\ batch[o].process = "none"
    /\ LET state == batch[o]
           id == state.deployment_id
           line == <<"Error:", "spawn failed">>
       IN IF ok
          THEN /\ batch' = [batch EXCEPT ![o].process = "running"]
               /\ fetchLog' = fetchLog
          ELSE /\ batch' = [batch EXCEPT ![o] =
                              Finally(Put([state EXCEPT
                                             !.status = "error",
                                             !.error = Some(Msg("spawn failed"))],
                                          line))]
               /\ fetchLog' = [fetchLog EXCEPT ![id] = Append(@, LogLine(line))]
    /\ UNCHANGED <<deployVars, results, sessions>>

\* run_deployment, one turn of "while True": a line is read and add_line
\* appends it to the log file and puts it on the queue
ReadLine(o) ==
    /\ call.op = "serve"
    /\ o \in DOMAIN batch
    /\ batch[o].process = "running"
    /\ batch[o].read < Len(batch[o].script)
    /\ LET state == batch[o]
           line == state.script[state.read + 1]
       IN /\ batch' = [batch EXCEPT ![o] = [Put(state, line) EXCEPT !.read = @ + 1]]
          /\ fetchLog' = [fetchLog EXCEPT ![state.deployment_id] =
                              Append(@, LogLine(line))]
    /\ UNCHANGED <<deployVars, results, sessions>>

\* run_deployment from the end of the output to its end: process.wait(), the
\* search of the log file for the JSON line, the status, and the sentinel
ProcessExit(o, returncode) ==
    /\ call.op = "serve"
    /\ o \in DOMAIN batch
    /\ batch[o].process = "running"
    /\ batch[o].read = Len(batch[o].script)
    /\ LET state == [batch[o] EXCEPT !.returncode = returncode]
       IN batch' = [batch EXCEPT ![o] =
                       Finally(Completed(state, fetchLog[state.deployment_id],
                                         returncode))]
    /\ UNCHANGED <<deployVars, results, fetchLog, sessions>>

\* GET /stream/{deployment_id}, stream_generator up to its first queue.get()
OpenStream(deployment_id) ==
    /\ call.op = "serve"
    /\ Len(sessions) < MaxStreams
    /\ LET state == IF deployment_id \in DOMAIN results
                    THEN results[deployment_id] ELSE 0
       IN sessions' = Append(sessions,
                             IF state = 0
                             THEN Stream(deployment_id, 0, <<NotFoundEvent>>, TRUE)
                             ELSE Stream(deployment_id, state, <<>>, FALSE))
    /\ UNCHANGED <<deployVars, batch, results, fetchLog>>

\* stream_generator, one turn of "while True": queue.get() returns
StreamGet(k) ==
    /\ call.op = "serve"
    /\ k \in DOMAIN sessions
    /\ ~sessions[k].ended
    /\ batch[sessions[k].state].queue # <<>>
    /\ LET o == sessions[k].state
           line == Head(batch[o].queue)
       IN /\ batch' = [batch EXCEPT ![o].queue = Tail(@)]
          /\ sessions' = [sessions EXCEPT ![k] =
                IF line = Sentinel
                THEN Stream(@.deployment_id, o,
                            Append(@.events, CompleteEvent(batch[o])), TRUE)
                ELSE Stream(@.deployment_id, o,
                            Append(@.events, LogEvent(line)), FALSE)]
    /\ UNCHANGED <<deployVars, results, fetchLog>>

\* the steps the event loop takes on its own
DeployRuns ==
    \/ \E o \in 1..MaxDeployments, ok \in BOOLEAN : Spawn(o, ok)
    \/ \E o \in 1..MaxDeployments : ReadLine(o)
    \/ \E o \in 1..MaxDeployments, returncode \in ReturnCodes :
          ProcessExit(o, returncode)
    \/ \E k \in 1..MaxStreams : StreamGet(k)

DeployNext ==
    \/ \E elapsed \in 0..1, script \in Scripts : StartDeployment(elapsed, script)
    \/ \E deployment_id \in 1..(MaxDeployments + 1) : OpenStream(deployment_id)
    \/ DeployRuns

\* the event loop runs every task that can run
DeployFairSpec == DeployInit /\ [][DeployNext]_vars /\ WF_vars(DeployRuns)

\* ------------------------------------------- fetch_all_html(urls, concurrency)
\* the URL lists given to fetch_all_html, a URL possibly more than once, and the
\* values of its concurrency argument
BulkUrls == {BaseUrl, BaseUrl + 1}
BulkLists == UNION {[1..n -> BulkUrls] : n \in 0..MaxBulk}
BulkCalls ==
    {[op |-> "fetch_all_html", urls |-> l, concurrency |-> c] :
        l \in BulkLists, c \in 1..MaxConcurrency}

\* the fetch_one tasks inside "async with semaphore"
Holders == {i \in DOMAIN results : results[i] = "fetching"}

SlotFree_inclusive(c, held) == held <= c

\* asyncio.Semaphore(concurrency): acquire goes through while fewer than
\* concurrency tasks hold the semaphore
SlotFree(c, held) == held < c

\* return url, ""
NoHtml == <<"", 0>>

BulkResults_okOnly ==
    [u \in {call.urls[i] : i \in {j \in DOMAIN call.urls : results[j] = "ok"}} |-> Html(u)]

\* results[url] = html for every (url, html) of the gathered tasks, in list
\* order: html is "" for a task whose fetch raised
BulkResults ==
    [u \in Range(call.urls) |->
        LET last == Max({i \in DOMAIN call.urls : call.urls[i] = u})
        IN IF results[last] = "ok" THEN Html(u) ELSE NoHtml]

BulkInit ==
    /\ call \in BulkCalls
    /\ cfg = SiteConfig("fetch", "default", None, None)
    /\ web = WebOf({})
    /\ pc = "idle"
    /\ visited = {}
    /\ to_visit = <<>>
    /\ all_links = {}
    /\ batch = <<>>
    /\ results = <<>>
    /\ ret = NoResult
    /\ fetchLog = <<>>
    /\ failed = {}
    /\ sessions = <<>>
    /\ prev = None

\* fetch_all_html up to asyncio.gather: one fetch_one task per list entry
FetchAllHtml ==
    /\ pc = "idle"
    /\ call.op = "fetch_all_html"
    /\ results' = [i \in DOMAIN call.urls |-> "waiting"]
    /\ pc' = "bulk"
    /\ UNCHANGED <<cfg, web, call, visited, to_visit, all_links, batch, ret, fetchLog,
                   failed, sessions, prev>>

\* task i enters "async with semaphore" and starts fetch_html
Acquire(i) ==
    /\ pc = "bulk"
    /\ i \in DOMAIN results
    /\ results[i] = "waiting"
    /\ SlotFree(call.concurrency, Cardinality(Holders))
    /\ results' = [results EXCEPT ![i] = "fetching"]
    /\ fetchLog' = Append(fetchLog, <<call.urls[i], 0>>)
    /\ UNCHANGED <<cfg, web, pc, call, visited, to_visit, all_links, batch, ret, failed,
                   sessions, prev>>

\* the fetch_html of task i returns or raises; the task leaves the semaphore
FetchOneDone(i, ok) ==
    /\ pc = "bulk"
    /\ i \in DOMAIN results
    /\ results[i] = "fetching"
    /\ results' = [results EXCEPT ![i] = IF ok THEN "ok" ELSE "exc"]
    /\ failed' = IF ok THEN failed ELSE failed \cup {call.urls[i]}
    /\ UNCHANGED <<cfg, web, pc, call, visited, to_visit, all_links, batch, ret, fetchLog,
                   sessions, prev>>

\* asyncio.gather returns, the dict is filled and returned
BulkGather ==
    /\ pc = "bulk"
    /\ \A i \in DOMAIN results : results[i] \in {"ok", "exc"}
    /\ ret' = [html |-> BulkResults]
    /\ pc' = "done"
    /\ UNCHANGED <<cfg, web, call, crawlVars, fetchLog, failed, sessions, prev>>

BulkNext ==
    \/ FetchAllHtml
    \/ \E i \in 1..MaxBulk : Acquire(i)
    \/ \E i \in 1..MaxBulk, ok \in BOOLEAN : FetchOneDone(i, ok)
    \/ BulkGather

\* the event loop runs a task that can run, and every fetch ends
BulkFairSpec == BulkInit /\ [][BulkNext]_vars /\ WF_vars(BulkNext)

\* ------------------------------------------------ vocabulary of the claims
\* a scrape_links call of the configured site is running or has returned,
\* in fetch mode and past the configuration checks
FetchCrawl ==
    /\ pc # "idle"
    /\ call.op = "links"
    /\ call.site \in SITES
    /\ cfg.extractor \in EXTRACTORS
    /\ cfg.links # None
    /\ cfg.mode = "fetch"

\* the same, in render mode
RenderCrawl ==
    /\ pc # "idle"
    /\ call.op = "links"
    /\ call.site \in SITES
    /\ cfg.extractor \in EXTRACTORS
    /\ cfg.links # None
    /\ cfg.mode # "fetch"

\* a scrape_content call of the configured site past the configuration checks
ContentCall ==
    /\ pc # "idle"
    /\ call.op = "content"
    /\ call.site \in SITES
    /\ cfg.extractor \in EXTRACTORS
    /\ cfg.content # None

Returned == pc = "done"
MaxDepthOf == cfg.links[1].maxDepth
SeedUrls == {BaseUrl + cfg.links[1].startUrls[i] : i \in 1..Len(cfg.links[1].startUrls)}

\* the URLs at most k hops from a seed in the link graph
RECURSIVE Within(_)
Within(k) ==
    IF k = 0 THEN SeedUrls
    ELSE LET R == Within(k - 1) IN R \cup UNION {web[p] \ {Malformed} : p \in R}

\* the fetches of the running call, and those that returned markup
Fetched == Range(fetchLog)
FetchedOk == {e \in Fetched : e[1] \notin failed}
StrictlyAscending(s) == \A i, j \in 1..Len(s) : i < j => s[i] < s[j]
\* link x occurs on the page at p and on no other page
OnlyOn(x, p) == x \in web[p] /\ \A q \in Urls \ {p} : x \notin web[q]

\* C1: every ScrapeResult returned is success=true with error = None, or
\* success=false with data = [] and an error that is not None
C1_EnvelopeShape ==
    Returned =>
        \/ ret.success /\ ret.error = None
        \/ ~ret.success /\ ret.data = <<>> /\ ret.error # None

\* a discovery call that fetched pages and then failed on a strategy error
C1_Witness ==
    /\ Returned
    /\ FetchCrawl
    /\ ~ret.success
    /\ fetchLog # <<>>

\* C2: the data of every successful scrape_links is strictly ascending
C2_SortedNoDuplicates ==
    (Returned /\ ret.operation = "links" /\ ret.success) => StrictlyAscending(ret.data)

\* two seeds, and two pages fetched in different batches that hold the same link
C2_Witness ==
    /\ Returned
    /\ FetchCrawl
    /\ ret.success
    /\ Len(ret.data) >= 2
    /\ Cardinality(SeedUrls) >= 2
    /\ \E a, b \in FetchedOk : a[2] # b[2] /\ web[a[1]] \cap web[b[1]] # {}

\* C3: no page is fetched at a depth above maxDepth, every page fetched at depth d
\* is within d hops of a seed, and every URL returned stands on a fetched page
\* within maxDepth hops of a seed
C3_DepthBound ==
    FetchCrawl =>
        /\ \A e \in Fetched : e[2] <= MaxDepthOf /\ e[1] \in Within(e[2])
        /\ (Returned /\ ret.success) =>
              \A x \in Range(ret.data) :
                  /\ \E e \in FetchedOk : e[1] \in Within(MaxDepthOf) /\ x \in web[e[1]]
                  /\ x \in Within(MaxDepthOf + 1)

\* a returned URL exactly maxDepth + 1 hops from the seeds, with maxDepth >= 1
C3_Witness ==
    /\ Returned
    /\ FetchCrawl
    /\ ret.success
    /\ MaxDepthOf >= 1
    /\ \E x \in Range(ret.data) : x \notin Within(MaxDepthOf)

\* C4: entries up to depth maxDepth are fetched, the links of a page fetched at
\* depth maxDepth are returned, no frontier entry is deeper than maxDepth, and a
\* link that stands only on a page that was never fetched is not returned
C4_DepthBoundary ==
    FetchCrawl =>
        /\ \A i \in 1..Len(to_visit) : to_visit[i][2] <= MaxDepthOf
        /\ (Returned /\ ret.success) =>
              /\ SeedUrls \subseteq visited
              /\ \A e \in FetchedOk :
                    \/ e[2] = MaxDepthOf /\ web[e[1]] \subseteq Range(ret.data)
                    \/ e[2] < MaxDepthOf /\ web[e[1]] \subseteq visited
              /\ \A p \in Urls \ visited : \A x \in web[p] :
                    OnlyOn(x, p) => x \notin Range(ret.data)

\* a link L found on a page fetched at depth maxDepth is returned, L's page is not
\* fetched, and a link that stands only on L's page is not returned
C4_Witness ==
    /\ Returned
    /\ FetchCrawl
    /\ ret.success
    /\ \E e \in FetchedOk :
          /\ e[2] = MaxDepthOf
          /\ \E l \in web[e[1]] :
                /\ l \in Range(ret.data)
                /\ l \notin visited
                /\ \E x \in web[l] : OnlyOn(x, l) /\ x \notin Range(ret.data)
\* the least number of hops from a seed to u, for u within maxDepth hops
Dist(u) == Min({k \in 0..MaxDepthOf : u \in Within(k)})

\* C5: when no fetch fails and the strategy does not raise (it accepts raw markup
\* and no page within maxDepth hops holds a malformed href), the pages fetched
\* are the pages within maxDepth hops of a seed, each at its least hop distance,
\* and the data is the union of their links
C5_Complete ==
    (/\ FetchCrawl /\ Returned /\ failed = {}
     /\ cfg.extractor \in InheritsDefaultLinks
     /\ \A p \in Within(MaxDepthOf) : Malformed \notin web[p]) =>
        /\ ret.success
        /\ visited = Within(MaxDepthOf)
        /\ \A e \in Fetched : e[2] = Dist(e[1])
        /\ Range(ret.data) = UNION {web[p] : p \in Within(MaxDepthOf)}

\* the seeds exceed one batch, so that the second batch holds a seed next to an
\* entry of depth 1; a page P at most maxDepth hops from a seed is also linked
\* from a page q that is maxDepth hops away (by that path P lies beyond the
\* cut-off), and a link that stands only on P's page is returned
C5_Witness ==
    /\ Returned
    /\ FetchCrawl
    /\ failed = {}
    /\ ret.success
    /\ Len(fetchLog) >= BatchSize + 2
    /\ fetchLog[BatchSize + 1][2] = 0
    /\ fetchLog[BatchSize + 2][2] = 1
    /\ \E e, f \in Fetched :
          /\ e[1] # f[1]
          /\ e[1] \in web[f[1]]
          /\ f[2] = MaxDepthOf
          /\ \E x \in web[e[1]] : OnlyOn(x, e[1]) /\ x \in Range(ret.data)

\* C6: a failed fetch leaves its siblings running to their end and never fails the
\* call: the call fails only when the strategy raises on a fetched page (it
\* rejects raw markup, or the page holds a malformed href); when the call
\* succeeds the frontier is worked off and the links of every fetched page are
\* returned
C6_FailureIsolated ==
    FetchCrawl =>
        /\ pc \in {"loop", "done"} => \A i \in DOMAIN results : results[i] # "pending"
        /\ Returned =>
              IF ret.success
              THEN /\ to_visit = <<>>
                   /\ \A e \in FetchedOk : web[e[1]] \subseteq Range(ret.data)
                   /\ \A e \in FetchedOk : e[2] < MaxDepthOf => web[e[1]] \subseteq visited
              ELSE /\ \/ cfg.extractor \notin InheritsDefaultLinks
                      \/ \E e \in FetchedOk : Malformed \in web[e[1]]
                   /\ FetchedOk # {}
                   /\ ret.error[1].text # "fetch failed"

\* one fetch of a batch failed, a sibling of the same batch returned links, and a
\* later batch was fetched
C6_Witness ==
    /\ Returned
    /\ FetchCrawl
    /\ ret.success
    /\ \E i, j, k \in DOMAIN fetchLog :
          /\ i # j
          /\ fetchLog[i][2] = 0
          /\ fetchLog[j][2] = 0
          /\ fetchLog[i][1] \in failed
          /\ fetchLog[j][1] \notin failed
          /\ web[fetchLog[j][1]] # {}
          /\ web[fetchLog[j][1]] \subseteq Range(ret.data)
          /\ fetchLog[k][2] > 0

\* C7: every running fetch-mode discovery eventually returns
C7_Terminates == (FetchCrawl /\ pc \in {"loop", "gather"}) ~> Returned

\* a discovery over a graph with a self-link and a cycle has returned
C7_Witness ==
    /\ Returned
    /\ FetchCrawl
    /\ ret.success
    /\ \E u, v \in visited : u \in web[u] /\ u # v /\ v \in web[u] /\ u \in web[v]

\* C8: a successful scrape_links without fetch failure returns the data an earlier
\* such call returned
C8_Deterministic ==
    (Returned /\ ret.operation = "links" /\ ret.success /\ failed = {} /\ prev # None)
        => ret.data = prev[1].data

\* a repeated fetch-mode discovery whose batch held two concurrent fetches
C8_Witness ==
    /\ Returned
    /\ FetchCrawl
    /\ ret.success
    /\ failed = {}
    /\ prev # None
    /\ Len(ret.data) >= 2
    /\ \E i, j \in DOMAIN fetchLog : i # j /\ fetchLog[i][2] = fetchLog[j][2]

\* C9: scrape_content opens one browser session and fetches nothing when
\* content.mode (or, when that is unset, the site's mode) is not fetch, and
\* fetches once and opens no session when it is fetch
C9_ModeDispatch ==
    ContentCall =>
        LET m == IF cfg.content[1].mode # None THEN cfg.content[1].mode[1] ELSE cfg.mode
        IN IF m = "fetch"
           THEN Len(fetchLog) = 1 /\ sessions = <<>>
           ELSE Len(sessions) = 1 /\ fetchLog = <<>>

\* a site with mode fetch and a content override went through the render path
C9_Witness ==
    /\ ContentCall
    /\ Returned
    /\ ret.success
    /\ cfg.mode = "fetch"
    /\ cfg.content[1].mode = Some("browser")
    /\ Len(sessions) = 1
    /\ sessions[1].browser = "closed"

\* C10: render-mode scrape_links opens one session, at baseUrl + the first seed
\* path (baseUrl when there is none), fetches nothing, and returns the links of
\* that page
C10_RenderSinglePage ==
    RenderCrawl =>
        LET seeds == cfg.links[1].startUrls
            first == BaseUrl + (IF seeds # <<>> THEN seeds[1] ELSE 0)
        IN /\ Len(sessions) = 1
           /\ sessions[1].url = first
           /\ fetchLog = <<>>
           /\ visited = {}
           /\ (Returned /\ ret.success) => Range(ret.data) = web[first]

\* a render-mode discovery with several seeds returned the links of the first
\* seed's page, and not a link that stands only on another seed's page
C10_Witness ==
    /\ RenderCrawl
    /\ Returned
    /\ ret.success
    /\ Cardinality(SeedUrls) >= 2
    /\ ret.data # <<>>
    /\ \E u \in SeedUrls : \E x \in web[u] : x \notin Range(ret.data)

\* C11: when a call has returned, no browser, context or page of a session it
\* opened is still open, whichever step raised
C11_SessionReleased ==
    Returned =>
        \A i \in DOMAIN sessions :
            /\ sessions[i].browser # "open"
            /\ sessions[i].context # "open"
            /\ sessions[i].page # "open"

\* C12: a call with a site id that is not configured has returned as soon as it
\* was made, with success=false, empty data and the error of load_site_config,
\* which names the site id and lists the configured ids; it fetched nothing and
\* opened no session
C12_UnknownSite ==
    (pc # "idle" /\ call.site \notin SITES) =>
        /\ Returned
        /\ ~ret.success
        /\ ret.data = <<>>
        /\ ret.error # None
        /\ ret.error[1].text = "Unknown site"
        /\ ret.error[1].arg = call.site
        /\ ret.error[1].available = SITES
        /\ fetchLog = <<>>
        /\ sessions = <<>>

\* scrape_links with an unknown site id returned, where the stored configuration
\* is one that makes a known site crawl
C12_Witness ==
    /\ Returned
    /\ call.site \notin SITES
    /\ call.op = "links"
    /\ cfg.links # None
    /\ cfg.mode = "fetch"
    /\ ~ret.success

\* C13: scrape_links of a site without links configuration and scrape_content of
\* a site without content configuration have returned as soon as they were made,
\* with success=false, empty data and an error that names the missing
\* configuration, having fetched nothing and opened no session
C13_MissingSubConfig ==
    (/\ pc # "idle"
     /\ call.site \in SITES
     /\ \/ call.op = "links" /\ cfg.links = None
        \/ call.op = "content" /\ cfg.content = None) =>
        /\ Returned
        /\ ~ret.success
        /\ ret.data = <<>>
        /\ ret.error # None
        /\ cfg.extractor \in EXTRACTORS =>
              ret.error[1].text =
                  IF call.op = "links" THEN "Site has no links configuration"
                  ELSE "Site has no content configuration"
        /\ fetchLog = <<>>
        /\ sessions = <<>>

\* scrape_links of a fetch-mode site that has a content configuration only
C13_Witness ==
    /\ Returned
    /\ call.site \in SITES
    /\ call.op = "links"
    /\ cfg.extractor \in EXTRACTORS
    /\ cfg.links = None
    /\ cfg.content # None
    /\ cfg.mode = "fetch"
    /\ ~ret.success

\* the strategy's extract_links raises on the raw markup of the page at u
RaisesOn(u) == ExtractLinks(cfg.extractor, "html", web[u]).raised # None

\* the tasks of the current batch that returned markup on which the strategy raises
RaisingInBatch == {i \in DOMAIN batch : results[i] = "ok" /\ RaisesOn(batch[i][1])}

\* C14: once extract_links has raised on a fetched page the discovery call is over:
\* no batch is built or fetched after the one that held the page, and the call
\* has returned success=false with empty data and the message of the first
\* exception raised, whatever was collected before; without such a page the
\* call succeeds
C14_StrategyErrorAborts ==
    FetchCrawl =>
        /\ pc = "loop" => \A e \in FetchedOk : ~RaisesOn(e[1])
        /\ pc = "gather" => \A e \in FetchedOk \ Range(batch) : ~RaisesOn(e[1])
        /\ Returned =>
              IF \E e \in FetchedOk : RaisesOn(e[1])
              THEN /\ RaisingInBatch # {}
                   /\ ~ret.success
                   /\ ret.data = <<>>
                   /\ ret.error =
                         ExtractLinks(cfg.extractor, "html",
                                      web[batch[Min(RaisingInBatch)][1]]).raised
              ELSE ret.success

\* the strategy raised on a page of the second batch, after links had been
\* collected from the first
C14_Witness ==
    /\ Returned
    /\ FetchCrawl
    /\ ~ret.success
    /\ all_links # {}
    /\ ret.data = <<>>
    /\ \E i \in RaisingInBatch : batch[i][2] >= 1

\* C15: a scrape_content call that got past the configuration checks returns
\* success=false with empty data and the message of the exception exactly when
\* the fetch, the strategy on the fetched markup, or a step of the browser
\* session (launch, navigation, selector wait, extraction on the page) raised
C15_ContentFailure ==
    (ContentCall /\ Returned) =>
        LET m == IF cfg.content[1].mode # None THEN cfg.content[1].mode[1] ELSE cfg.mode
            raised ==
                IF m = "fetch"
                THEN IF failed # {} THEN Some(Msg("fetch failed"))
                     ELSE IF cfg.extractor = "terraform"
                          THEN Some(Msg(
                              "TerraformExtractor requires browser mode for content extraction"))
                          ELSE None
                ELSE sessions[1].raised
        IN IF raised # None
           THEN ~ret.success /\ ret.data = <<>> /\ ret.error = raised
           ELSE ret.success

\* the extraction on the live page raised after navigation and selector wait
\* succeeded
C15_Witness ==
    /\ ContentCall
    /\ Returned
    /\ ~ret.success
    /\ sessions # <<>>
    /\ sessions[1].wait_for # None
    /\ sessions[1].page = "closed"
    /\ ret.error = Some(Msg("extraction failed"))

\* C20: the session of scrape_content is opened with the two clipboard
\* permissions when content.method is click_copy and with no permission for
\* every other method
C20_ClipboardPermissions ==
    (ContentCall /\ sessions # <<>>) =>
        sessions[1].permissions =
            IF cfg.content[1].method = "click_copy"
            THEN {"clipboard-read", "clipboard-write"}
            ELSE {}

\* a render-mode scrape_content with method text_content ran to its end in a
\* session without permissions
C20_Witness ==
    /\ ContentCall
    /\ Returned
    /\ ret.success
    /\ cfg.content[1].method = "text_content"
    /\ sessions # <<>>
    /\ sessions[1].permissions = {}
    /\ sessions[1].browser = "closed"

\* the call runs the render-only strategy in effective mode fetch
TerraformFetch ==
    /\ cfg.extractor = "terraform"
    /\ \/ FetchCrawl
       \/ /\ ContentCall
          /\ (IF cfg.content[1].mode # None THEN cfg.content[1].mode[1] ELSE cfg.mode)
                 = "fetch"

\* the message of the render-only strategy for the running operation
TerraformMessage ==
    IF call.op = "links"
    THEN Msg("TerraformExtractor requires browser mode for link extraction")
    ELSE Msg("TerraformExtractor requires browser mode for content extraction")

\* C16 as stated: every call that runs the render-only strategy in effective mode
\* fetch returns success=false with the strategy's message
C16_AlwaysFails ==
    (TerraformFetch /\ Returned) =>
        ~ret.success /\ ret.error = Some(TerraformMessage)

\* C16: a call that runs the render-only strategy in effective mode fetch never
\* returns data; it returns success=false with the strategy's message when a
\* fetch returned markup; when none did, scrape_links returns success=true with
\* empty data and scrape_content returns success=false with the message of the
\* failed fetch
C16_RenderOnly ==
    (TerraformFetch /\ Returned) =>
        /\ ret.data = <<>>
        /\ IF FetchedOk # {}
           THEN ~ret.success /\ ret.error = Some(TerraformMessage)
           ELSE IF call.op = "links"
                THEN ret.success
                ELSE ~ret.success /\ ret.error = Some(Msg("fetch failed"))

\* a discovery with the render-only strategy in which one seed's fetch failed
\* and the other returned markup
C16_Witness ==
    /\ TerraformFetch
    /\ Returned
    /\ call.op = "links"
    /\ failed # {}
    /\ FetchedOk # {}
    /\ ~ret.success

\* C17: a successful scrape_content of the default strategy with method
\* inner_html or text_content returns what that method yields from the
\* elements the selector matches, in fetch mode as in render mode
C17_ContentByMethod ==
    (/\ ContentCall /\ Returned /\ ret.success
     /\ cfg.extractor = "default"
     /\ cfg.content[1].method \in {"inner_html", "text_content"}) =>
        ret.data = <<Element(cfg.content[1].method, BaseUrl + call.path)>>

\* v is u, a URL without query and fragment, followed by slashes and then
\* nothing, a query string or a fragment
IsVariant(u, v) ==
    /\ \A i \in 1..Len(u) : u[i] \notin {"?", "#"}
    /\ StartsWith(v, u)
    /\ LET t == SubSeq(v, Len(u) + 1, Len(v))
       IN \E k \in 0..Len(t) :
             /\ \A i \in 1..k : t[i] = "/"
             /\ k = Len(t) \/ t[k + 1] \in {"?", "#"}

\* u and v differ only by query string, fragment or trailing slashes
SameResource(u, v) ==
    \E k \in 0..Len(u) : IsVariant(SubSeq(u, 1, k), u) /\ IsVariant(SubSeq(u, 1, k), v)

\* the page of the worked example: /guide/intro, /blog and a link to another host
ExamplePage ==
    {<<"/", "guide", "/", "intro">>,
     <<"/", "blog">>,
     <<"https://", "other.test", "/", "guide", "/", "x">>}

\* C18: every URL that extract_links returns for raw markup contains the pattern
\* (when it is not empty) and has the host of the base URL; the example page
\* with pattern /guide yields /guide/intro on the site's host and nothing else
C18_LinkFilter ==
    (pc = "done" /\ call.op = "extract_links") =>
        /\ \A i \in DOMAIN ret.links :
              /\ call.pattern # <<>> => Contains(ret.links[i], call.pattern)
              /\ Netloc(ret.links[i]) = Netloc(call.base_url)
        /\ \A h \in call.html :
              (h # <<>> /\ h[1] \in {"http://", "https://"}
                        /\ h[2] # call.base_url[2]) =>
                  \A i \in DOMAIN ret.links : ~StartsWith(ret.links[i], <<h[1], h[2]>>)
        /\ (/\ call.html = ExamplePage
            /\ call.pattern = <<"/", "guide">>
            /\ call.base_url = <<"https://", "docs.test">>) =>
                ret.links = << <<"https://", "docs.test", "/", "guide", "/", "intro">> >>

\* the worked example has been evaluated
C18_Witness ==
    /\ pc = "done"
    /\ call.op = "extract_links"
    /\ call.html = ExamplePage
    /\ call.pattern = <<"/", "guide">>
    /\ call.base_url = <<"https://", "docs.test">>
    /\ Len(ret.links) = 1

\* C19: _clean_url applied to its own result returns that result, and two URLs
\* that differ only by query string, fragment or trailing slashes have the same
\* result
C19_CleanIdempotent ==
    (pc = "done" /\ call.op = "_clean_url") =>
        /\ ret.twice = ret.once
        /\ SameResource(call.url, call.other) => ret.other = ret.once

\* a URL with trailing slash and query and one with a fragment, both of the
\* same resource, have been normalized
C19_Witness ==
    /\ pc = "done"
    /\ call.op = "_clean_url"
    /\ call.url # call.other
    /\ SameResource(call.url, call.other)
    /\ \E i \in 1..Len(call.url) : call.url[i] = "?"
    /\ \E i \in 1..Len(call.other) : call.other[i] = "#"
    /\ call.url[Len(ret.once) + 1] = "/"
    /\ ret.once # <<>>

\* C22: in a fetch-mode scrape_links with maxDepth >= 0, every frontier entry
\* has a depth between 0 and maxDepth + 1, and the depths of the frontier never
\* decrease from its head to its tail
C22_FrontierDepths ==
    (FetchCrawl /\ MaxDepthOf >= 0) =>
        /\ \A i \in DOMAIN to_visit : to_visit[i][2] \in 0..(MaxDepthOf + 1)
        /\ \A i, j \in DOMAIN to_visit : i < j => to_visit[i][2] <= to_visit[j][2]

\* a frontier holding a seed left over by a full batch and, behind it, a link
\* found on a page of that batch
C22_Witness ==
    /\ FetchCrawl
    /\ pc = "loop"
    /\ \E i, j \in DOMAIN to_visit :
          /\ i < j
          /\ to_visit[i][2] = 0
          /\ to_visit[j][2] = 1

\* C23: a fetch-mode scrape_links fetches no URL twice, even when the frontier
\* holds the URL several times or its first fetch failed; no batch holds a URL
\* twice; and it fetches no more URLs than there are distinct URLs among the
\* seeds and the extracted links
C23_AtMostOnce ==
    FetchCrawl =>
        /\ \A i, j \in DOMAIN fetchLog : fetchLog[i][1] = fetchLog[j][1] => i = j
        /\ \A i, j \in DOMAIN batch : batch[i][1] = batch[j][1] => i = j
        /\ Len(fetchLog) <= Cardinality(SeedUrls \cup all_links)
        /\ \A u \in failed : Cardinality({i \in DOMAIN fetchLog : fetchLog[i][1] = u}) = 1

\* a call has returned whose frontier held a seed twice, the one fetch of that
\* seed having failed
C23_Witness ==
    /\ FetchCrawl
    /\ Returned
    /\ Len(fetchLog) >= 2
    /\ \E i, j \in DOMAIN cfg.links[1].startUrls :
          /\ i # j
          /\ cfg.links[1].startUrls[i] = cfg.links[1].startUrls[j]
          /\ UrlConcat(BaseUrl, cfg.links[1].startUrls[i]) \in failed

\* the fetches of the running batch that have not ended
InFlight == {i \in DOMAIN results : results[i] = "pending"}

\* C24: a fetch-mode scrape_links has at most 10 fetches in flight; it changes
\* the frontier and the visited set only while no fetch is in flight; and it
\* starts no fetch of a next batch before every result of the current batch has
\* been folded into the frontier
C24_BatchDiscipline ==
    /\ [](FetchCrawl => Cardinality(InFlight) <= BatchSize)
    /\ [][(FetchCrawl /\ InFlight # {}) =>
             /\ to_visit' = to_visit
             /\ visited' = visited
             /\ fetchLog' = fetchLog]_vars
    /\ [][(FetchCrawl /\ fetchLog' # fetchLog /\ fetchLog' # <<>>) =>
             /\ pc = "loop"
             /\ InFlight = {}
             /\ \A i \in DOMAIN batch :
                   (results[i] = "ok" /\ ~RaisesOn(batch[i][1])) =>
                       web[batch[i][1]] \subseteq all_links]_vars

\* a full batch of 10 fetches is in flight while the frontier still holds entries
C24_Witness ==
    /\ FetchCrawl
    /\ pc = "gather"
    /\ Cardinality(InFlight) = BatchSize
    /\ to_visit # <<>>

\* C21: every URL in the visited set of a fetch-mode scrape_links is normalized
\* (no query string, no fragment, no trailing slash), so that a seed and a
\* discovered link which differ only by those are one entry and their page is
\* fetched once
C21_VisitedNormalized ==
    FetchCrawl =>
        /\ \A u \in visited : Clean(UrlString(u)) = UrlString(u)
        /\ \A i, j \in DOMAIN fetchLog :
              Clean(UrlString(fetchLog[i][1])) = Clean(UrlString(fetchLog[j][1])) => i = j

\* C28: a call leaves nothing behind that changes a later call: a successful
\* fetch-mode scrape_links without fetch failure that is made after a failed
\* call returns the data the same call returned before that failure
C28_CallIsolation ==
    (/\ Returned
     /\ FetchCrawl
     /\ ret.success
     /\ failed = {}
     /\ prev # None
     /\ prev[1].failedSince)
        => ret.data = prev[1].data

\* a discovery that fetched pages and found links has returned after an
\* earlier one and a failed call in between
C28_Witness ==
    /\ Returned
    /\ FetchCrawl
    /\ ret.success
    /\ failed = {}
    /\ prev # None
    /\ prev[1].failedSince
    /\ Len(ret.data) >= 2
    /\ Len(fetchLog) >= 2

\* the operations of the strategy's extraction, as they appear in a session log
Extractions == {"extract_links", "extract_content"}

\* C26: in scrape_content and in render-mode scrape_links the strategy's
\* setup_browser is invoked only after the navigation and, when a wait selector
\* is configured, the selector wait have succeeded, and before the extraction
\* starts; when the navigation or the wait fails, neither is invoked
C26_SetupOrdering ==
    (pc # "idle" /\ sessions # <<>>) =>
        LET s == sessions[1]
            L == s.log
        IN /\ \A i \in DOMAIN L :
                 L[i] = "setup_browser" =>
                     /\ \E j \in 1..(i - 1) : L[j] = "goto"
                     /\ s.wait_for # None =>
                            \E j \in 1..(i - 1) : L[j] = "wait_for_selector"
           /\ \A i \in DOMAIN L :
                 L[i] \in Extractions => \E j \in 1..(i - 1) : L[j] = "setup_browser"
           /\ \A i \in DOMAIN L :
                 (L[i] = "wait_for_selector" /\ i > 1) => L[i - 1] = "goto"
           /\ (/\ s.raised # None
               /\ s.raised[1].text \in {"navigation failed", "selector wait failed"})
                  => \A i \in DOMAIN L : L[i] \notin Extractions \cup {"setup_browser"}

\* a scrape_content with a wait selector has navigated, waited, set up and extracted
C26_Witness ==
    /\ ContentCall
    /\ Returned
    /\ ret.success
    /\ sessions # <<>>
    /\ sessions[1].wait_for # None
    /\ Len(sessions[1].log) >= 4
    /\ sessions[1].log[1] = "goto"
    /\ sessions[1].log[2] = "wait_for_selector"
    /\ sessions[1].log[3] = "setup_browser"
    /\ sessions[1].log[4] = "extract_content"

\* C27: when a click_copy extraction has clicked and the clipboard read fails,
\* the extraction does not raise: scrape_content returns success=true with one
\* data entry, the text that begins with the error marker
C27_ClipboardFailureIsContent ==
    (/\ ContentCall
     /\ Returned
     /\ sessions # <<>>
     /\ "readText: error" \in Range(sessions[1].log))
        => /\ sessions[1].raised = None
           /\ ret.success
           /\ ret.error = None
           /\ Len(ret.data) = 1
           /\ ret.data[1][1] = "Error reading clipboard: "

\* the default strategy with method click_copy has clicked and the read failed
C27_Witness ==
    /\ ContentCall
    /\ Returned
    /\ cfg.extractor = "default"
    /\ cfg.content[1].method = "click_copy"
    /\ sessions # <<>>
    /\ Len(sessions[1].log) >= 2
    /\ sessions[1].log[Len(sessions[1].log) - 1] = "click"
    /\ sessions[1].log[Len(sessions[1].log)] = "readText: error"

\* C25: for the same base URL, pattern and set of absolute hrefs, extract_links
\* on a live page returns the sequence it returns on raw markup; in particular
\* it returns only links whose host is the host of the base URL
C25_PageEqualsMarkup ==
    (pc = "done" /\ call.op = "extract_links_page") =>
        /\ ret.page = ret.markup
        /\ \A i \in 1..Len(ret.page) : Netloc(ret.page[i]) = Netloc(call.base_url)

\* C29: when the legacy scrape(job) fails inside its try block or extracts no
\* entry, a failure of a debug capture is swallowed: the markup capture and the
\* screenshot capture are each attempted when their path is configured, whatever
\* became of the other, and the result is success=false with the original error,
\* whether the captures succeeded or failed
C29_DebugCaptureSwallowed ==
    (pc = "done" /\ call.op = "scrape" /\ sessions # <<>>) =>
        LET L == sessions[1].log
        IN \A i \in DOMAIN L :
              L[i] \in FailedOutcomes =>
                  /\ ret = LegacyScrapeResult(call.name, FALSE, <<>>,
                               Some(Msg(IF L[i] = "no entries"
                                        THEN "No entries found" ELSE L[i])))
                  /\ call.debug_html_path # None <=> "page.content" \in Range(L)
                  /\ call.debug_screenshot_path # None <=> "page.screenshot" \in Range(L)

\* the extraction raised, the markup capture failed, and the screenshot was
\* taken after it
C29_Witness ==
    /\ pc = "done"
    /\ call.op = "scrape"
    /\ sessions # <<>>
    /\ \E i \in DOMAIN sessions[1].log :
          /\ i + 3 = Len(sessions[1].log)
          /\ sessions[1].log[i] = "extract_fn raised"
          /\ sessions[1].log[i + 1] = "page.content"
          /\ sessions[1].log[i + 2] = "failed"
          /\ sessions[1].log[i + 3] = "page.screenshot"

\* C30: for every URL list and every concurrency c >= 1, fetch_all_html never has
\* more than c fetches in flight, and when every fetch ends (with markup or with
\* an exception) every entry of the list is eventually fetched and the call
\* returns
C30_BulkFetchCap ==
    /\ [](call.op = "fetch_all_html" =>
            Cardinality({i \in DOMAIN results : results[i] = "fetching"})
                <= call.concurrency)
    /\ (call.op = "fetch_all_html") ~>
           (/\ pc = "done"
            /\ Len(fetchLog) = Len(call.urls)
            /\ \A i \in DOMAIN call.urls :
                  \E j \in DOMAIN fetchLog : fetchLog[j][1] = call.urls[i]
            /\ DOMAIN ret.html = Range(call.urls))

\* as many fetches are in flight as the semaphore admits, and a task waits
C30_Witness ==
    /\ pc = "bulk"
    /\ call.op = "fetch_all_html"
    /\ Cardinality({i \in DOMAIN results : results[i] = "fetching"}) = call.concurrency
    /\ \E i \in DOMAIN results : results[i] = "waiting"
    /\ \E i \in DOMAIN results : results[i] = "exc"

\* C31 as stated: the mapping returned by fetch_all_html has exactly the URLs of
\* the list as keys, every URL whose fetch raised maps to the empty string and
\* every URL whose fetch returned maps to its markup
C31_ResultByOutcome ==
    (pc = "done" /\ call.op = "fetch_all_html") =>
        /\ DOMAIN ret.html = Range(call.urls)
        /\ \A i \in DOMAIN call.urls :
              /\ results[i] = "exc" => ret.html[call.urls[i]] = NoHtml
              /\ results[i] = "ok" => ret.html[call.urls[i]] = Html(call.urls[i])

\* C31: fetch_all_html returns whatever fetch fails, every list entry having
\* been fetched; the mapping returned has exactly the URLs of the list as keys,
\* and a URL maps to the empty string when the fetch of its last occurrence in
\* the list raised and to its markup when that fetch returned
C31_ResultByLastOutcome ==
    (pc = "done" /\ call.op = "fetch_all_html") =>
        /\ DOMAIN ret.html = Range(call.urls)
        /\ Len(fetchLog) = Len(call.urls)
        /\ \A i \in DOMAIN call.urls :
              (\A j \in DOMAIN call.urls : call.urls[j] = call.urls[i] => j <= i) =>
                  /\ results[i] = "exc" => ret.html[call.urls[i]] = NoHtml
                  /\ results[i] = "ok" => ret.html[call.urls[i]] = Html(call.urls[i])

\* with one slot, the first fetch has failed and the fetch of another URL after
\* it has returned: the call returned both keys
C31_Witness ==
    /\ pc = "done"
    /\ call.op = "fetch_all_html"
    /\ call.concurrency = 1
    /\ Len(call.urls) >= 2
    /\ call.urls[1] # call.urls[2]
    /\ fetchLog[1][1] = call.urls[1]
    /\ results[1] = "exc"
    /\ results[2] = "ok"
    /\ ret.html[call.urls[1]] = NoHtml
    /\ ret.html[call.urls[2]] = Html(call.urls[2])

\* the class registered under a name
ClassOf(name) == (CHOOSE r \in Registrations : r[1] = name)[2]

\* C32: in whatever order the strategies were registered, get_extractor(name)
\* returns an instance of the class registered under name for a registered name
\* and raises an error that lists the registered names for any other name; the
\* registry holds the same registrations after the call
C32_RegistryResolution ==
    (pc = "done" /\ call.op = "get_extractor") =>
        /\ IF call.name \in EXTRACTORS
           THEN /\ ret.raised = None
                /\ ret.instance = Some(ClassOf(call.name))
           ELSE /\ ret.instance = None
                /\ ret.raised = Some(UnknownExtractor(call.name, EXTRACTORS))
        /\ Range(ret.registry) = Registrations
        /\ Len(ret.registry) = Cardinality(Registrations)

\* the modal strategy resolved from a registry in which it was registered first
\* and the default strategy last
C32_Witness ==
    /\ pc = "done"
    /\ call.op = "get_extractor"
    /\ call.name = "modal"
    /\ call.order[1][1] = "modal"
    /\ call.order[Len(call.order)][1] = "default"
    /\ ret.instance = Some("ModalExtractor")

\* C33: whenever a render-mode content extraction reads the clipboard, with
\* whatever strategy and configured method, its browser session was opened with
\* the permissions clipboard-read and clipboard-write
C33_ClipboardReadPermitted ==
    (ContentCall /\ sessions # <<>> /\ "click" \in Range(sessions[1].log)) =>
        sessions[1].permissions = {"clipboard-read", "clipboard-write"}

\* C34: scrape_batch returns exactly one LegacyScrapeResult per job, in job
\* order; a job for which no extraction function can be resolved (method custom
\* without an extract function, or a method with no legacy extractor) yields a
\* success=false result for that job, and the other jobs' results are returned
C34_OneResultPerJob ==
    (pc = "done" /\ call.op = "scrape_batch") =>
        /\ "returned" \in DOMAIN ret
        /\ Len(ret.returned) = Len(call.jobs)
        /\ \A i \in DOMAIN call.jobs :
              /\ ret.returned[i].job_name = call.jobs[i].name
              /\ UnresolvedMethod(batch[i]) # None => ~ret.returned[i].success

\* the lines add_line was given for a deployment so far, in order
Produced(state) ==
    SubSeq(state.script, 1, state.read)
    \o (IF state.error = Some(Msg("spawn failed"))
        THEN <<<<"Error:", "spawn failed">>>> ELSE <<>>)

\* C35: every stream opened for a started deployment, also when several are
\* open for one deployment, eventually has received every log line in the order
\* produced, then one complete event as its last event, and has ended; the
\* status of a complete event is complete or error, never running
C35_StreamCompletes ==
    /\ [](\A k \in DOMAIN sessions : \A n \in DOMAIN sessions[k].events :
             sessions[k].events[n].event = "complete" =>
                 sessions[k].events[n].status \in {"complete", "error"})
    /\ \A k \in 1..MaxStreams :
          (k \in DOMAIN sessions /\ sessions[k].state # 0)
          ~> (/\ k \in DOMAIN sessions
              /\ sessions[k].state # 0
              /\ sessions[k].ended
              /\ LET state == batch[sessions[k].state]
                     lines == Produced(state)
                 IN sessions[k].events =
                        [n \in 1..Len(lines) |-> LogEvent(lines[n])]
                        \o <<CompleteEvent(state)>>)

\* C36: two deployments never carry one id, every deployment keeps its entry
\* in the deployments table, and a stream opened for an id delivers only lines
\* of a deployment with that id
C36_OwnIdStateQueue ==
    /\ \A i, j \in DOMAIN batch :
          i # j => batch[i].deployment_id # batch[j].deployment_id
    /\ \A o \in DOMAIN batch : results[batch[o].deployment_id] = o
    /\ \A k \in DOMAIN sessions :
          sessions[k].state # 0 =>
              /\ batch[sessions[k].state].deployment_id = sessions[k].deployment_id
              /\ \A n \in DOMAIN sessions[k].events :
                    sessions[k].events[n].event = "log" =>
                        sessions[k].events[n].line
                            \in Range(batch[sessions[k].state].script)

\* C37: when the process exited with code 0 and the last JSON line it printed
\* carries an api_url, the complete event delivered to the stream carries that
\* api_url and the ui_url
C37_ApiUrlDelivered ==
    \A k \in DOMAIN sessions : \A n \in DOMAIN sessions[k].events :
        LET e == sessions[k].events[n]
            state == batch[sessions[k].state]
            json == {i \in DOMAIN state.script : JsonLoads(state.script[i]) # None}
        IN (/\ e.event = "complete"
            /\ state.read = Len(state.script)
            /\ state.returncode = 0
            /\ state.error = None
            /\ json # {}
            /\ "api_url" \in JsonLoads(state.script[Max(json)])[1])
           => /\ e.api_url = Some(ApiUrl)
              /\ e.ui_url = Some(UiUrl)
====
